---- MODULE Spec2Model ----
(***************************************************************************)
(* Interview session state machine of interview-ai (backend/app).         *)
(*                                                                         *)
(* The model follows the service layer (services/interview.py), the two   *)
(* LangGraph pipelines (agents/graph.py), the turn agents (agents/*.py),  *)
(* the durable store (services/database.py) and the Redis cache            *)
(* (core/redis.py).  The text-generation backend is opaque: every call    *)
(* an agent makes has an outcome drawn from a small set (gateway failure, *)
(* unparsable text, or a payload).  Generated texts are abstracted to the *)
(* question they were generated for; scores are kept as numbers, report   *)
(* scores in tenths (75 is 7.5).                                           *)
(***************************************************************************)
EXTENDS Integers, Sequences, FiniteSets, TLC

(***************************************************************************)
(* Settings (core/config.py) and the bounds of the model.                  *)
(***************************************************************************)
\* settings.MAX_QUESTIONS: a deployment setting (default 8), instantiated small.
MAX_QUESTIONS == 2

\* settings.MAX_FOLLOW_UPS
MAX_FOLLOW_UPS == 1

\* uuid4 session ids handed out by start_interview
Ids == {"s1"}

Languages == {"en", "id"}

\* Raw answer texts a client may submit, as character sequences.
RawAnswers == { <<" ", "a", " ", " ", "b", " ">>, <<"c">>, <<" ", " ">> }

\* What the client sends: a blank text, or one text to a main question and
\* another to a follow-up question, so that the two can be told apart.
MainAnswers == { <<" ", "a", " ", " ", "b", " ">>, <<" ", " ">> }
FollowUpAnswers == { <<"c">>, <<" ", " ">> }

\* Numbers of topics the planner model may return.
PlanTopicCounts == {0, MAX_QUESTIONS + 1}

\* Scores the evaluator model may return (11 fails validation).
ModelScores == {8, 11}

\* Reports the coach model may return: overall score (tenths; 5 fails
\* validation), grade and readiness.
ReportPayloads ==
    { [overall_score |-> 5, overall_grade |-> "Good", ready_for_role |-> TRUE],
      [overall_score |-> 60, overall_grade |-> "Good", ready_for_role |-> TRUE],
      [overall_score |-> 60, overall_grade |-> "Excellent", ready_for_role |-> TRUE] }

(***************************************************************************)
(* Texts.  None models Python's None for Optional[str] fields.             *)
(***************************************************************************)
None == "<None>"
EmptyText == ""

\* None for an Optional answer text (answers are character sequences)
NoAnswer == << "<None>" >>

QuestionTexts == <<"Q1", "Q2", "Q3", "Q4", "Q5", "Q6", "Q7", "Q8", "Q9">>
FollowUpTexts == <<"F1", "F2", "F3", "F4", "F5", "F6", "F7", "F8", "F9">>

\* The text the model generates for the main question at a 0-based index.
MainQuestionText(index) == QuestionTexts[index + 1]

\* The text the model generates as follow-up to a question at that index.
FollowUpText(index) == FollowUpTexts[index + 1]

(***************************************************************************)
(* _sanitize_text: strip, collapse 3+ newlines to 2, 2+ spaces to 1.       *)
(***************************************************************************)
IsSpace(c) == c \in {" ", "\n", "\t"}

RECURSIVE LStrip(_)
LStrip(s) == IF s # <<>> /\ IsSpace(Head(s)) THEN LStrip(Tail(s)) ELSE s

RECURSIVE RStrip(_)
RStrip(s) ==
    IF s # <<>> /\ IsSpace(s[Len(s)]) THEN RStrip(SubSeq(s, 1, Len(s) - 1)) ELSE s

\* re.sub(c{n+1,} -> c^n): keep at most n consecutive occurrences of c
RECURSIVE CollapseRuns(_, _, _, _)
CollapseRuns(s, c, n, run) ==
    IF s = <<>> THEN <<>>
    ELSE IF Head(s) = c
         THEN IF run >= n THEN CollapseRuns(Tail(s), c, n, run + 1)
              ELSE <<c>> \o CollapseRuns(Tail(s), c, n, run + 1)
         ELSE <<Head(s)>> \o CollapseRuns(Tail(s), c, n, 0)

\* mutant: the text is not stripped
_sanitize_text_no_strip(text) ==
    CollapseRuns(CollapseRuns(text, "\n", 2, 0), " ", 1, 0)

_sanitize_text(text) ==
    CollapseRuns(CollapseRuns(RStrip(LStrip(text)), "\n", 2, 0), " ", 1, 0)

(***************************************************************************)
(* models/schemas.py                                                       *)
(***************************************************************************)
NoEvaluation == [score |-> 0, kind |-> "none"]

NoReport == [overall_score |-> 0, overall_grade |-> None,
             ready_for_role |-> FALSE, kind |-> "none"]

\* QAPair(...)
QAPair(number, question, answer, fuq, fua) ==
    [question_number |-> number, question |-> question, answer |-> answer,
     follow_up_question |-> fuq, follow_up_answer |-> fua,
     evaluation |-> NoEvaluation]

\* InterviewState(language=...) with the declared field defaults
InterviewState(language) ==
    [resume_text |-> "",
     job_description |-> "",
     interview_type |-> "behavioral",
     difficulty |-> "junior",
     language |-> language,
     candidate_profile |-> FALSE,
     interview_plan |-> -1,
     current_question_index |-> 0,
     current_question |-> EmptyText,
     is_follow_up |-> FALSE,
     follow_up_count |-> 0,
     qa_pairs |-> <<>>,
     final_report |-> NoReport,
     status |-> "initialized",
     error_message |-> None]

\* QuestionEvaluation validation: score: int = Field(..., ge=1, le=10)
ValidScore(score) == score >= 1 /\ score <= 10

\* FinalReport validation: overall_score: float = Field(..., ge=1.0, le=10.0)
ValidReportScore(tenths) == tenths >= 10 /\ tenths <= 100

(***************************************************************************)
(* Helpers on sequences.                                                   *)
(***************************************************************************)
RECURSIVE SumScores(_)
SumScores(s) == IF s = <<>> THEN 0 ELSE Head(s) + SumScores(Tail(s))

Last(s) == s[Len(s)]

ReplaceLast(s, x) == [s EXCEPT ![Len(s)] = x]

Min(a, b) == IF a <= b THEN a ELSE b

Abs(x) == IF x < 0 THEN -x ELSE x

(***************************************************************************)
(* Outcomes of one gateway call made by an agent, after parsing:           *)
(*   llm_fail   - invoke_llm raised (primary and fallback both failed)    *)
(*   parse_fail - extract_json or the pydantic constructor raised         *)
(*   payload    - a parsed payload, carried in .value                      *)
(***************************************************************************)
LlmFail == [kind |-> "llm_fail", value |-> 0]
ParseFail == [kind |-> "parse_fail", value |-> 0]
Payload(v) == [kind |-> "payload", value |-> v]

AnalyzeOutcomes == {LlmFail, ParseFail, Payload(1)}
PlanOutcomes == {LlmFail, ParseFail} \cup {Payload(n) : n \in PlanTopicCounts}
TextOutcomes == {LlmFail, Payload(1)}
\* For the in-interview agents an unparsable text and a payload that fails
\* validation take the same handler: the invalid payloads stand for both.
DecisionOutcomes == {LlmFail, Payload(0), Payload(1)}
EvaluationOutcomes == {LlmFail} \cup {Payload(n) : n \in ModelScores}
ReportOutcomes ==
    {[kind |-> "llm_fail", value |-> CHOOSE r \in ReportPayloads : TRUE]}
    \cup {Payload(r) : r \in ReportPayloads}

(***************************************************************************)
(* agents/resume_analyzer.py                                               *)
(***************************************************************************)
analyze_resume(state, out) ==
    LET s1 == [state EXCEPT !.status = "analyzing"]
    IN  CASE out.kind = "payload" ->
                [s1 EXCEPT !.candidate_profile = TRUE]
          [] out.kind = "parse_fail" ->
                [s1 EXCEPT !.status = "error",
                           !.error_message =
                               "Resume analysis failed: Could not parse response"]
          [] OTHER ->
                [s1 EXCEPT !.status = "error",
                           !.error_message = "Resume analysis failed: RuntimeError"]

(***************************************************************************)
(* agents/interviewer.py                                                   *)
(***************************************************************************)
\* mutant: the plan is stored as generated, however long
plan_interview_untruncated(state, out) ==
    LET s1 == [state EXCEPT !.status = "planning"]
    IN  CASE out.kind = "payload" ->
                [s1 EXCEPT !.interview_plan = out.value,
                           !.status = "interviewing"]
          [] out.kind = "parse_fail" ->
                [s1 EXCEPT !.status = "error",
                           !.error_message =
                               "Interview planning failed: Could not parse response"]
          [] OTHER ->
                [s1 EXCEPT !.status = "error",
                           !.error_message = "Interview planning failed: RuntimeError"]

\* interview_plan is the number of topics of the plan, -1 for no plan (None)
plan_interview(state, out) ==
    LET s1 == [state EXCEPT !.status = "planning"]
    IN  CASE out.kind = "payload" ->
                [s1 EXCEPT !.interview_plan =
                               IF out.value > MAX_QUESTIONS THEN MAX_QUESTIONS
                               ELSE out.value,
                           !.status = "interviewing"]
          [] out.kind = "parse_fail" ->
                [s1 EXCEPT !.status = "error",
                           !.error_message =
                               "Interview planning failed: Could not parse response"]
          [] OTHER ->
                [s1 EXCEPT !.status = "error",
                           !.error_message = "Interview planning failed: RuntimeError"]

\* TRUE when generate_question reaches its gateway call
QuestionNeedsCall(state) == state.interview_plan > 0

\* topic_index = min(current_question_index, len(topics) - 1)
TopicIndex(state) == Min(state.current_question_index, state.interview_plan - 1)

generate_question(state, out) ==
    IF ~QuestionNeedsCall(state)
    THEN [state EXCEPT !.status = "error",
                       !.error_message = "No interview plan available"]
    ELSE IF out.kind = "payload"
         THEN [state EXCEPT !.current_question =
                                MainQuestionText(state.current_question_index),
                            !.is_follow_up = FALSE,
                            !.follow_up_count = 0]
         ELSE [state EXCEPT !.status = "error",
                            !.error_message =
                                "Question generation failed: RuntimeError"]

\* TRUE when decide_follow_up reaches its gateway call
DecisionNeedsCall(state) == state.follow_up_count < MAX_FOLLOW_UPS

\* mutant: a failed decision asks for a follow-up
decide_follow_up_default_yes(state, out) ==
    IF ~DecisionNeedsCall(state)
    THEN [state EXCEPT !.is_follow_up = FALSE]
    ELSE IF out.kind = "payload"
         THEN [state EXCEPT !.is_follow_up = (out.value = 1)]
         ELSE [state EXCEPT !.is_follow_up = TRUE]

decide_follow_up(state, out) ==
    IF ~DecisionNeedsCall(state)
    THEN [state EXCEPT !.is_follow_up = FALSE]
    ELSE IF out.kind = "payload"
         THEN [state EXCEPT !.is_follow_up = (out.value = 1)]
         ELSE [state EXCEPT !.is_follow_up = FALSE]

\* mutant: a failed generation still counts as a follow-up
generate_follow_up_counts_failure(state, out) ==
    IF out.kind = "payload"
    THEN [state EXCEPT !.current_question =
                           FollowUpText(state.current_question_index),
                       !.is_follow_up = TRUE,
                       !.follow_up_count = @ + 1]
    ELSE [state EXCEPT !.is_follow_up = FALSE,
                       !.follow_up_count = @ + 1]

generate_follow_up(state, out) ==
    IF out.kind = "payload"
    THEN [state EXCEPT !.current_question =
                           FollowUpText(state.current_question_index),
                       !.is_follow_up = TRUE,
                       !.follow_up_count = @ + 1]
    ELSE [state EXCEPT !.is_follow_up = FALSE]

\* mutant: the index is not incremented
advance_question_stuck(state) ==
    [state EXCEPT !.is_follow_up = FALSE, !.follow_up_count = 0]

advance_question(state) ==
    [state EXCEPT !.current_question_index = @ + 1,
                  !.is_follow_up = FALSE,
                  !.follow_up_count = 0]

(***************************************************************************)
(* agents/evaluator.py                                                     *)
(***************************************************************************)
DefaultEvaluation == [score |-> 5, kind |-> "default"]

\* mutant: a failed evaluation fails the turn
_assign_default_evaluation_error(state) ==
    [state EXCEPT !.status = "error",
                  !.error_message = "Evaluation failed"]

_assign_default_evaluation(state) ==
    IF state.qa_pairs = <<>> THEN state
    ELSE [state EXCEPT !.qa_pairs =
              ReplaceLast(@, [Last(@) EXCEPT !.evaluation = DefaultEvaluation])]

\* mutant: the evaluation is written to every turn
evaluate_answer_all_turns(state, out) ==
    LET s1 == [state EXCEPT !.status = "evaluating"]
    IN  IF s1.qa_pairs = <<>>
        THEN [s1 EXCEPT !.status = "error",
                        !.error_message = "No Q&A pairs available for evaluation"]
        ELSE IF out.kind = "payload" /\ ValidScore(out.value)
             THEN [s1 EXCEPT !.qa_pairs =
                       [k \in DOMAIN @ |-> [@[k] EXCEPT !.evaluation =
                                               [score |-> out.value, kind |-> "llm"]]]]
             ELSE _assign_default_evaluation(s1)

evaluate_answer(state, out) ==
    LET s1 == [state EXCEPT !.status = "evaluating"]
    IN  IF s1.qa_pairs = <<>>
        THEN [s1 EXCEPT !.status = "error",
                        !.error_message = "No Q&A pairs available for evaluation"]
        ELSE IF out.kind = "payload" /\ ValidScore(out.value)
             THEN [s1 EXCEPT !.qa_pairs =
                       ReplaceLast(@, [Last(@) EXCEPT !.evaluation =
                                          [score |-> out.value, kind |-> "llm"]])]
             ELSE _assign_default_evaluation(s1)

(***************************************************************************)
(* agents/coach.py                                                         *)
(***************************************************************************)
\* [qa.evaluation.score for qa in state.qa_pairs if qa.evaluation]
RECURSIVE EvaluatedScores(_)
EvaluatedScores(qa_pairs) ==
    IF qa_pairs = <<>> THEN <<>>
    ELSE IF Head(qa_pairs).evaluation.kind # "none"
         THEN <<Head(qa_pairs).evaluation.score>> \o EvaluatedScores(Tail(qa_pairs))
         ELSE EvaluatedScores(Tail(qa_pairs))

\* round(sum(scores) / len(scores), 1) in tenths: round-half-even of the
\* quotient (the only ties, x.25 and x.75, are exact in binary floating point)
RoundedMean(scores) ==
    LET n == 10 * SumScores(scores)
        d == Len(scores)
        q == n \div d
        r == n % d
    IN  IF 2 * r < d THEN q
        ELSE IF 2 * r > d THEN q + 1
        ELSE IF q % 2 = 0 THEN q ELSE q + 1

\* Means m (tenths) for which the double nearest (m+10)/10 minus the double
\* nearest m/10 is greater than 1.0 (e.g. 8.3 - 7.3 = 1.0000000000000009)
InexactUnitGaps == {12, 17, 34, 39, 73, 78}

\* abs(final_report.overall_score - actual_avg) > 1.0 on IEEE doubles,
\* for one-decimal operands given in tenths
DeviatesTooFar(reported, actual_avg) ==
    LET d == Abs(reported - actual_avg)
    IN  d > 10 \/ (d = 10 /\ Min(reported, actual_avg) \in InexactUnitGaps)

\* mutant: the bands exclude their lower limits
GradeOfExclusive(avg_score) ==
    IF avg_score > 90 THEN "Excellent"
    ELSE IF avg_score > 70 THEN "Very Good"
    ELSE IF avg_score > 50 THEN "Good"
    ELSE IF avg_score > 30 THEN "Below Average"
    ELSE "Poor"

\* grade bands of _assign_default_report
GradeOf(avg_score) ==
    IF avg_score >= 90 THEN "Excellent"
    ELSE IF avg_score >= 70 THEN "Very Good"
    ELSE IF avg_score >= 50 THEN "Good"
    ELSE IF avg_score >= 30 THEN "Below Average"
    ELSE "Poor"

\* mutant: the default report does not complete the session
_assign_default_report_no_status(state) ==
    LET scores == EvaluatedScores(state.qa_pairs)
        avg_score == IF scores # <<>> THEN RoundedMean(scores) ELSE 50
    IN  [state EXCEPT !.final_report =
                          [overall_score |-> avg_score,
                           overall_grade |-> GradeOf(avg_score),
                           ready_for_role |-> (avg_score >= 60),
                           kind |-> "default"]]

_assign_default_report(state) ==
    LET scores == EvaluatedScores(state.qa_pairs)
        avg_score == IF scores # <<>> THEN RoundedMean(scores) ELSE 50
    IN  [state EXCEPT !.final_report =
                          [overall_score |-> avg_score,
                           overall_grade |-> GradeOf(avg_score),
                           ready_for_role |-> (avg_score >= 60),
                           kind |-> "default"],
                      !.status = "completed"]

\* the overall score of an accepted generated report
CorrectedScore(reported, scores) ==
    IF scores # <<>> /\ DeviatesTooFar(reported, RoundedMean(scores))
    THEN RoundedMean(scores)
    ELSE reported

generate_coaching_report(state, out) ==
    LET s1 == [state EXCEPT !.status = "coaching"]
    IN  IF s1.qa_pairs = <<>>
        THEN [s1 EXCEPT !.status = "error",
                        !.error_message = "No interview data available for coaching"]
        ELSE IF out.kind = "payload" /\ ValidReportScore(out.value.overall_score)
             THEN [s1 EXCEPT !.final_report =
                                 [overall_score |->
                                      CorrectedScore(out.value.overall_score,
                                                     EvaluatedScores(s1.qa_pairs)),
                                  overall_grade |-> out.value.overall_grade,
                                  ready_for_role |-> out.value.ready_for_role,
                                  kind |-> "llm"],
                             !.status = "completed"]
             ELSE _assign_default_report(s1)

(***************************************************************************)
(* agents/graph.py                                                         *)
(***************************************************************************)
\* GraphState has no "language" key: the graph drops it from its input and
\* from every node's output, and InterviewState.model_validate restores the
\* field default (Language.ENGLISH).
_to_interview_state(data) == [data EXCEPT !.language = "en"]

\* mutant: the setup graph never routes to END on error
check_setup_error_never(state) == "continue"

check_setup_error(state) == IF state.status = "error" THEN "error" ELSE "continue"

\* mutant: off by one, the last question is followed by another
check_interview_complete_late(state) ==
    IF state.status = "error" THEN "error"
    ELSE IF state.current_question_index > MAX_QUESTIONS - 1 THEN "done"
    ELSE "continue"

check_interview_complete(state) ==
    IF state.status = "error" THEN "error"
    ELSE IF state.current_question_index >= MAX_QUESTIONS - 1 THEN "done"
    ELSE "continue"

\* One executed agent: its name and how its gateway call went: "none" (it
\* returned without calling), "ok" (payload accepted) or "failed" (the call,
\* the parsing or the validation raised).
Step(agent, called, accepted) ==
    [agent |-> agent,
     out |-> IF ~called THEN "none" ELSE IF accepted THEN "ok" ELSE "failed"]

Accepted(out) == out.kind = "payload"

\* setup graph: analyze_resume -> plan_interview -> generate_question.
\* Result: the final state and the trace of executed nodes.
run_setup(state, aOut, pOut, qOut) ==
    LET s0 == _to_interview_state(state)
        s1 == analyze_resume(s0, aOut)
        t1 == <<Step("analyze_resume", TRUE, Accepted(aOut))>>
        s2 == plan_interview(s1, pOut)
        t2 == t1 \o <<Step("plan_interview", TRUE, Accepted(pOut))>>
        s3 == generate_question(s2, qOut)
        t3 == t2 \o <<Step("generate_question", QuestionNeedsCall(s2), Accepted(qOut))>>
    IN  IF check_setup_error(s1) = "error" THEN [state |-> s1, trace |-> t1]
        ELSE IF check_setup_error(s2) = "error" THEN [state |-> s2, trace |-> t2]
        ELSE [state |-> s3, trace |-> t3]

\* advance_and_generate_node
\* mutant: the index is advanced twice
advance_and_generate_node_twice(state, qOut) ==
    generate_question(advance_question(advance_question(state)), qOut)

advance_and_generate_node(state, qOut) ==
    generate_question(advance_question(state), qOut)

\* process-answer graph: evaluate -> (next_question | coaching | END)
run_process_answer(state, eOut, qOut, rOut) ==
    LET s0 == _to_interview_state(state)
        s1 == evaluate_answer(s0, eOut)
        t1 == <<Step("evaluate_answer", s0.qa_pairs # <<>>,
                    Accepted(eOut) /\ ValidScore(eOut.value))>>
        route == check_interview_complete(s1)
    IN  CASE route = "error" -> [state |-> s1, trace |-> t1]
          [] route = "done" ->
                [state |-> generate_coaching_report(s1, rOut),
                 trace |-> t1 \o
                     <<Step("generate_coaching_report", s1.qa_pairs # <<>>,
                            Accepted(rOut)
                            /\ ValidReportScore(rOut.value.overall_score))>>]
          [] OTHER ->
                [state |-> advance_and_generate_node(s1, qOut),
                 trace |-> t1 \o
                     <<Step("advance_question", FALSE, FALSE),
                       Step("generate_question",
                            QuestionNeedsCall(advance_question(s1)),
                            Accepted(qOut))>>]

(***************************************************************************)
(* State.                                                                  *)
(*   db      - durable store: per session id the session row with its     *)
(*             qa_pairs rows and coaching_report row                       *)
(*   cache   - Redis: per key the cached session entry                     *)
(*   created - session ids handed out so far                               *)
(*   resp    - the last request and what the service returned for it      *)
(*   issued  - per session, the question index for which follow-up        *)
(*             questions were last generated and how many of them          *)
(*             (history, saturating just above the cap)                    *)
(***************************************************************************)
VARIABLES db, cache, created, resp, issued, gateway

vars == <<db, cache, created, resp, issued, gateway>>

\* the gateway while no invocation of it is observed
GatewayIdle ==
    [pc |-> "idle", retry_count |-> 0, retry_delay |-> 0, attempt |-> 0,
     log |-> <<>>]

\* mutant: a failed session is not treated as terminal
TerminalWithoutError == {"completed"}

Terminal == {"completed", "error"}

(***************************************************************************)
(* services/database.py                                                    *)
(***************************************************************************)
NoRow ==
    [present |-> FALSE, resume_text |-> "", job_description |-> "",
     interview_type |-> "behavioral", difficulty |-> "junior",
     language |-> "en", candidate_profile |-> FALSE,
     interview_plan |-> -1, status |-> "initialized", error_message |-> None,
     overall_score |-> -1, overall_grade |-> None,
     qa_pairs |-> <<>>, coaching_report |-> NoReport]

\* create_session: the row written for a new session
create_session(state) ==
    [NoRow EXCEPT !.present = TRUE,
                  !.resume_text = state.resume_text,
                  !.job_description = state.job_description,
                  !.interview_type = state.interview_type,
                  !.difficulty = state.difficulty,
                  !.language = state.language,
                  !.candidate_profile = state.candidate_profile,
                  !.interview_plan = state.interview_plan,
                  !.status = state.status,
                  !.error_message = state.error_message]

\* update_session_status(status, error_message=None)
update_session_status(row, status, error_message) ==
    IF row.present
    THEN [row EXCEPT !.status = status, !.error_message = error_message]
    ELSE row

\* qa_pairs relationship: order_by question_number
RECURSIVE InsertByNumber(_, _)
InsertByNumber(rows, qa) ==
    IF rows = <<>> THEN <<qa>>
    ELSE IF Head(rows).question_number <= qa.question_number
         THEN <<Head(rows)>> \o InsertByNumber(Tail(rows), qa)
         ELSE <<qa>> \o rows

\* save_qa_pair (the row must exist: qa_pairs.session_id is a foreign key)
save_qa_pair(row, qa_pair) ==
    [row EXCEPT !.qa_pairs = InsertByNumber(@, qa_pair)]

save_coaching_report(row, report) ==
    [row EXCEPT !.coaching_report = report]

update_session_final_score(row, report) ==
    IF row.present
    THEN [row EXCEPT !.overall_score = report.overall_score,
                     !.overall_grade = report.overall_grade,
                     !.status = "completed"]
    ELSE row

\* mutant: the index is not stepped back for a completed session
db_to_interview_state_no_step_back(session_row) ==
    [InterviewState(session_row.language) EXCEPT
        !.resume_text = session_row.resume_text,
        !.job_description = session_row.job_description,
        !.interview_type = session_row.interview_type,
        !.difficulty = session_row.difficulty,
        !.candidate_profile = session_row.candidate_profile,
        !.interview_plan = session_row.interview_plan,
        !.current_question_index = Len(session_row.qa_pairs),
        !.qa_pairs = session_row.qa_pairs,
        !.final_report = session_row.coaching_report,
        !.status = session_row.status,
        !.error_message = session_row.error_message]

db_to_interview_state(session_row) ==
    LET n == Len(session_row.qa_pairs)
        current_question_index ==
            IF n > 0 /\ session_row.status = "completed" THEN n - 1 ELSE n
    IN  [InterviewState(session_row.language) EXCEPT
            !.resume_text = session_row.resume_text,
            !.job_description = session_row.job_description,
            !.interview_type = session_row.interview_type,
            !.difficulty = session_row.difficulty,
            !.candidate_profile = session_row.candidate_profile,
            !.interview_plan = session_row.interview_plan,
            !.current_question_index = current_question_index,
            !.qa_pairs = session_row.qa_pairs,
            !.final_report = session_row.coaching_report,
            !.status = session_row.status,
            !.error_message = session_row.error_message]

(***************************************************************************)
(* core/redis.py and the cache helpers of services/interview.py           *)
(***************************************************************************)
\* _redis_key: f"{REDIS_KEY_PREFIX}: {session_id}"
\* mutant: the key does not depend on the session id
_redis_key_shared(session_id) == <<"interview", ": ", "s1">>

_redis_key(session_id) == <<"interview", ": ", session_id>>

\* the key delete_session_endpoint clears: f"interview:{session_id}"
EndpointCacheKey(session_id) == <<"interview", ":", session_id>>

CacheKeys == {_redis_key(i) : i \in Ids} \cup {EndpointCacheKey(i) : i \in Ids}

SessionData(state, awaiting_follow_up, pending_main_question, pending_main_answer) ==
    [present |-> TRUE, state |-> state,
     awaiting_follow_up |-> awaiting_follow_up,
     pending_main_question |-> pending_main_question,
     pending_main_answer |-> pending_main_answer]

NoEntry ==
    [SessionData(InterviewState("en"), FALSE, EmptyText, <<>>) EXCEPT
        !.present = FALSE]

\* _cache_session
_cache_session(c, session_id, data) == [c EXCEPT ![_redis_key(session_id)] = data]

\* _clear_cache
_clear_cache(c, session_id) == [c EXCEPT ![_redis_key(session_id)] = NoEntry]

\* delete_cache(key)
delete_cache(c, key) == [c EXCEPT ![key] = NoEntry]

(***************************************************************************)
(* services/interview.py                                                   *)
(***************************************************************************)
\* _load_session: found / the session data / the cache afterwards
\* _load_session over a given cache c and store d
LoadSessionFrom(c, d, session_id) ==
    LET cached == c[_redis_key(session_id)]
        session_row == d[session_id]
        state == db_to_interview_state(session_row)
        session_data == SessionData(state, FALSE, EmptyText, <<>>)
    IN  IF cached.present
        THEN [found |-> TRUE, data |-> cached, cache |-> c]
        ELSE IF ~session_row.present
             THEN [found |-> FALSE, data |-> NoEntry, cache |-> c]
             ELSE [found |-> TRUE, data |-> session_data,
                   cache |-> IF state.status \notin Terminal
                             THEN _cache_session(c, session_id, session_data)
                             ELSE c]

_load_session(session_id) == LoadSessionFrom(cache, db, session_id)

\* mutant: an error state is cached like an active one
_sync_after_processing_keep_cache(row, c, session_id, state) ==
    IF state.status = "completed" /\ state.final_report.kind # "none"
    THEN [row |-> update_session_final_score(
                      save_coaching_report(row, state.final_report),
                      state.final_report),
          cache |-> _clear_cache(c, session_id)]
    ELSE [row |-> update_session_status(row, state.status, state.error_message),
          cache |-> _cache_session(c, session_id,
                                   SessionData(state, FALSE, EmptyText, <<>>))]

\* _sync_after_processing: the row and the cache afterwards
_sync_after_processing(row, c, session_id, state) ==
    IF state.status = "completed" /\ state.final_report.kind # "none"
    THEN [row |-> update_session_final_score(
                      save_coaching_report(row, state.final_report),
                      state.final_report),
          cache |-> _clear_cache(c, session_id)]
    ELSE IF state.status = "error"
    THEN [row |-> update_session_status(row, state.status, state.error_message),
          cache |-> _clear_cache(c, session_id)]
    ELSE [row |-> update_session_status(row, state.status, None),
          cache |-> _cache_session(c, session_id,
                                   SessionData(state, FALSE, EmptyText, <<>>))]

\* mutant: the handlers leave the status as the pipeline set it
NormalizeStatus_skipped(state) == state

\* "Normalize status" of the two handlers
NormalizeStatus(state) ==
    IF state.status \notin Terminal
    THEN [state EXCEPT !.status = "interviewing"]
    ELSE state

NoState == [InterviewState("en") EXCEPT !.status = "<none>"]

Response(op, session_id, code, state, awaiting_follow_up, trace) ==
    [op |-> op, sid |-> session_id, code |-> code, state |-> state,
     awaiting_follow_up |-> awaiting_follow_up, trace |-> trace]

\* mutant: every ValueError is answered 400, "not found" included
FailureAlways400(op, session_id, code) ==
    Response(op, session_id, 400, NoState, FALSE, <<>>)

Failure(op, session_id, code) ==
    Response(op, session_id, code, NoState, FALSE, <<>>)

\* What a handler leaves behind: the session row, the cache, the response and
\* the question index for which a follow-up question was generated (-1: none).
Outcome(row, c, response, follow_up_for) ==
    [row |-> row, cache |-> c, resp |-> response, follow_up_for |-> follow_up_for]

\* Record the turn, run the process-answer graph, persist and sync: the part
\* shared by _handle_main_answer (no follow-up) and _handle_follow_up_answer.
RecordAndProcess(row, c, session_id, state, qa_pair, before, eOut, qOut, rOut) ==
    LET appended == [state EXCEPT !.qa_pairs = Append(@, qa_pair)]
        run == run_process_answer(appended, eOut, qOut, rOut)
        final == NormalizeStatus(run.state)
        trace == before \o run.trace
        synced == _sync_after_processing(
                      save_qa_pair(row, Last(final.qa_pairs)), c, session_id, final)
    IN  IF ~row.present
        THEN \* save_qa_pair violates the foreign key: the request fails with 500
             Outcome(row, c,
                     Response("submit_answer", session_id, 500, NoState, FALSE, trace),
                     -1)
        ELSE Outcome(synced.row, synced.cache,
                     Response("submit_answer", session_id, 200, final, FALSE, trace),
                     -1)

_handle_main_answer(row, c, session_id, session_data, answer, dOut, fOut, eOut, qOut, rOut) ==
    LET state0 == session_data.state
        decided == decide_follow_up(state0, dOut)
        t1 == <<Step("decide_follow_up", DecisionNeedsCall(state0), Accepted(dOut))>>
        pending_question == decided.current_question
        followed == generate_follow_up(decided, fOut)
        t2 == t1 \o <<Step("generate_follow_up", TRUE, Accepted(fOut))>>
        qa_pair == QAPair(decided.current_question_index + 1,
                          decided.current_question, answer, None, NoAnswer)
    IN  IF decided.is_follow_up
        THEN Outcome(row,
                     _cache_session(c, session_id,
                         SessionData(followed, TRUE, pending_question, answer)),
                     Response("submit_answer", session_id, 200, followed, TRUE, t2),
                     IF fOut.kind = "payload"
                     THEN decided.current_question_index ELSE -1)
        ELSE RecordAndProcess(row, c, session_id, decided, qa_pair, t1,
                              eOut, qOut, rOut)

\* mutant: the pending answer and the follow-up answer change places
_handle_follow_up_answer_swapped(row, c, session_id, session_data, answer, eOut, qOut, rOut) ==
    LET state == session_data.state
        qa_pair == QAPair(state.current_question_index + 1,
                          session_data.pending_main_question,
                          answer,
                          state.current_question,
                          session_data.pending_main_answer)
    IN  RecordAndProcess(row, c, session_id, state, qa_pair, <<>>,
                         eOut, qOut, rOut)

_handle_follow_up_answer(row, c, session_id, session_data, answer, eOut, qOut, rOut) ==
    LET state == session_data.state
        qa_pair == QAPair(state.current_question_index + 1,
                          session_data.pending_main_question,
                          session_data.pending_main_answer,
                          state.current_question, answer)
    IN  RecordAndProcess(row, c, session_id, state, qa_pair, <<>>,
                         eOut, qOut, rOut)

\* submit_answer, with the status codes of submit_answer_endpoint
SubmitAnswerFrom(c, d, session_id, answer, dOut, fOut, eOut, qOut, rOut) ==
    LET loaded == LoadSessionFrom(c, d, session_id)
        state == loaded.data.state
        clean_answer == _sanitize_text(answer)
        row == d[session_id]
    IN  IF ~loaded.found
        THEN Outcome(row, c, Failure("submit_answer", session_id, 404), -1)
        ELSE IF state.status \in Terminal
        THEN Outcome(row, loaded.cache, Failure("submit_answer", session_id, 400), -1)
        ELSE IF clean_answer = <<>>
        THEN Outcome(row, loaded.cache, Failure("submit_answer", session_id, 400), -1)
        ELSE IF loaded.data.awaiting_follow_up
        THEN _handle_follow_up_answer(row, loaded.cache, session_id, loaded.data,
                                      clean_answer, eOut, qOut, rOut)
        ELSE _handle_main_answer(row, loaded.cache, session_id, loaded.data,
                                 clean_answer, dOut, fOut, eOut, qOut, rOut)

submit_answer(session_id, answer, dOut, fOut, eOut, qOut, rOut) == SubmitAnswerFrom(cache, db, session_id, answer, dOut, fOut, eOut, qOut, rOut)

(***************************************************************************)
(* Actions: one per request, plus the expiry of a cache entry.             *)
(***************************************************************************)
\* one more follow-up question generated for the question at `index`
Issue(h, index) ==
    IF h.index = index
    THEN [h EXCEPT !.count = IF @ > MAX_FOLLOW_UPS THEN @ ELSE @ + 1]
    ELSE [index |-> index, count |-> 1]

\* start_interview: the state built from the request's InterviewConfig
\* (one resume, job description, type and difficulty, none a field default)
ConfiguredState(language) ==
    [InterviewState(language) EXCEPT
        !.resume_text = "resume",
        !.job_description = "job",
        !.interview_type = "technical",
        !.difficulty = "senior"]

\* POST /start
StartInterview(session_id, language, aOut, pOut, qOut) ==
    /\ session_id \notin created
    /\ LET run == run_setup(ConfiguredState(language), aOut, pOut, qOut)
       IN  /\ db' = [db EXCEPT ![session_id] = create_session(run.state)]
           /\ cache' = _cache_session(cache, session_id,
                            SessionData(run.state, FALSE, EmptyText, <<>>))
           /\ resp' = Response("start_interview", session_id, 200, run.state,
                               FALSE, run.trace)
    /\ created' = created \cup {session_id}
    /\ UNCHANGED <<issued, gateway>>

\* POST /answer
SubmitAnswer(session_id, answer, dOut, fOut, eOut, qOut, rOut) ==
    /\ session_id \in created
    /\ \E done \in {submit_answer(session_id, answer, dOut, fOut, eOut, qOut, rOut)} :
           /\ db' = [db EXCEPT ![session_id] = done.row]
           /\ cache' = done.cache
           /\ resp' = done.resp
           /\ issued' = IF done.follow_up_for >= 0
                        THEN [issued EXCEPT ![session_id] =
                                 Issue(@, done.follow_up_for)]
                        ELSE issued
    /\ UNCHANGED <<created, gateway>>

\* GET /session/{id}
GetSessionStatus(session_id) ==
    /\ session_id \in created
    /\ LET loaded == _load_session(session_id)
       IN  /\ cache' = loaded.cache
           /\ resp' = IF loaded.found
                      THEN Response("get_session_status", session_id, 200,
                                    loaded.data.state,
                                    loaded.data.awaiting_follow_up, <<>>)
                      ELSE Failure("get_session_status", session_id, 404)
    /\ UNCHANGED <<db, created, issued, gateway>>

\* DELETE /session/{id}
DeleteSession(session_id) ==
    /\ session_id \in created
    /\ IF db[session_id].present
       THEN /\ db' = [db EXCEPT ![session_id] = NoRow]
            /\ cache' = delete_cache(cache, EndpointCacheKey(session_id))
            /\ resp' = Response("delete_session", session_id, 200, NoState,
                                FALSE, <<>>)
       ELSE /\ resp' = Failure("delete_session", session_id, 404)
            /\ UNCHANGED <<db, cache>>
    /\ UNCHANGED <<created, issued, gateway>>

\* The entry's time to live (SESSION_TTL_SECONDS) runs out
CacheExpire(key) ==
    /\ cache[key].present
    /\ cache' = [cache EXCEPT ![key] = NoEntry]
    /\ UNCHANGED <<db, created, resp, issued, gateway>>

\* The gateway outcomes one submission can meet: an outcome is enumerated
\* only for the calls the submission makes, the others are pinned.
SubmitOutcomes(session_id, answer) ==
    LET loaded == _load_session(session_id)
        state == loaded.data.state
        pinD == {LlmFail}
        pinT == {LlmFail}
        pinR == {CHOOSE r \in ReportOutcomes : r.kind = "llm_fail"}
        last == state.current_question_index >= MAX_QUESTIONS - 1
        Tuples(D, F, E, Q, R) == [d : D, f : F, e : E, q : Q, r : R]
        Processing(D) ==
            Tuples(D, pinT, EvaluationOutcomes,
                   IF last THEN pinT ELSE TextOutcomes,
                   IF last THEN ReportOutcomes ELSE pinR)
    IN  IF \/ ~loaded.found
           \/ state.status \in Terminal
           \/ _sanitize_text(answer) = <<>>
        THEN Tuples(pinD, pinT, {LlmFail}, pinT, pinR)
        ELSE IF loaded.data.awaiting_follow_up
        THEN Processing(pinD)
        ELSE IF ~DecisionNeedsCall(state)
        THEN Processing(pinD)
        ELSE Tuples({Payload(1)}, TextOutcomes, {LlmFail}, pinT, pinR)
             \cup Processing(DecisionOutcomes \ {Payload(1)})

\* the answers submitted for the session in the current state
\* the answers that are empty after sanitization
BlankAnswers == {a \in RawAnswers : \A n \in DOMAIN a : a[n] \in {" ", "\n", "\t"}}

AnswersFor(session_id) ==
    IF cache[_redis_key(session_id)].present
       /\ cache[_redis_key(session_id)].awaiting_follow_up
    THEN FollowUpAnswers
    ELSE MainAnswers

Init ==
    /\ db = [i \in Ids |-> NoRow]
    /\ cache = [k \in CacheKeys |-> NoEntry]
    /\ created = {}
    /\ resp = Failure("none", "", 0)
    /\ issued = [i \in Ids |-> [index |-> 0, count |-> 0]]
    /\ gateway = GatewayIdle

Next ==
    \/ \E i \in Ids, l \in Languages, a \in AnalyzeOutcomes,
          p \in PlanOutcomes, q \in TextOutcomes :
          StartInterview(i, l, a, p, q)
    \/ \E i \in Ids : \E ans \in AnswersFor(i) :
          \E o \in SubmitOutcomes(i, ans) :
              SubmitAnswer(i, ans, o.d, o.f, o.e, o.q, o.r)
    \/ \E i \in Ids : GetSessionStatus(i)
    \/ \E i \in Ids : DeleteSession(i)
    \/ \E k \in CacheKeys : CacheExpire(k)

Spec == Init /\ [][Next]_vars

(***************************************************************************)
(* Views used by the properties.                                           *)
(***************************************************************************)
CacheEntry(i) == cache[_redis_key(i)]

\* a request of kind `op` was answered successfully and is the last one
Returned(op) == resp.op = op /\ resp.code = 200

\* the last request returned a session state
ReturnedState ==
    Returned("start_interview") \/ Returned("submit_answer")
    \/ Returned("get_session_status")

\* the step is an answer submission for session i
SubmitStep(i) ==
    \E ans \in AnswersFor(i) :
        \E o \in SubmitOutcomes(i, ans) :
            SubmitAnswer(i, ans, o.d, o.f, o.e, o.q, o.r)

Ran(trace, agent) == \E k \in DOMAIN trace : trace[k].agent = agent

RanWith(trace, agent, out) ==
    \E k \in DOMAIN trace : trace[k].agent = agent /\ trace[k].out = out

IndexInRange(state) ==
    /\ 0 <= state.current_question_index
    /\ state.current_question_index < MAX_QUESTIONS
    /\ Len(state.qa_pairs) <= MAX_QUESTIONS

NumberedInOrder(qa_pairs) ==
    \A k \in DOMAIN qa_pairs : qa_pairs[k].question_number = k

OneRecordPerQuestion(state) ==
    /\ NumberedInOrder(state.qa_pairs)
    /\ Len(state.qa_pairs) =
           IF state.status = "completed"
           THEN state.current_question_index + 1
           ELSE state.current_question_index

C3_StateInvariant ==
    /\ \A i \in Ids :
          /\ CacheEntry(i).present => OneRecordPerQuestion(CacheEntry(i).state)
          /\ db[i].present => NumberedInOrder(db[i].qa_pairs)
    /\ ReturnedState => OneRecordPerQuestion(resp.state)

C3_SubmitAppends(i) ==
    LET loaded == _load_session(i)
        before == loaded.data.state.qa_pairs
        after == resp'.state.qa_pairs
        wasFollowUp == loaded.data.awaiting_follow_up
    IN  (SubmitStep(i) /\ resp'.code = 200)
        => IF resp'.awaiting_follow_up
           THEN after = before /\ db' = db
           ELSE /\ Len(after) = Len(before) + 1
                /\ SubSeq(after, 1, Len(before)) = before
                /\ db'[i].qa_pairs = after
                /\ (Last(after).follow_up_question # None) = wasFollowUp
                /\ (Last(after).follow_up_answer # NoAnswer) = wasFollowUp

C4_FollowUpCap ==
    /\ \A i \in Ids :
          /\ CacheEntry(i).present =>
                CacheEntry(i).state.follow_up_count <= MAX_FOLLOW_UPS
          /\ issued[i].count <= MAX_FOLLOW_UPS
    /\ ReturnedState => resp.state.follow_up_count <= MAX_FOLLOW_UPS

(***************************************************************************)
(* C5: when the turn just evaluated was answered at an index              *)
(* >= MAX_QUESTIONS - 1, the pipeline runs Report Synthesis and not       *)
(* Question Generation, the session becomes completed (returned state,    *)
(* durable row) and leaves the cache; and no submission to a completed    *)
(* session generates a question.                                           *)
(***************************************************************************)
C5_LastTurnCompletes(i) ==
    LET loaded == _load_session(i)
    IN  /\ ( /\ SubmitStep(i) /\ resp'.code = 200 /\ ~resp'.awaiting_follow_up
             /\ loaded.data.state.current_question_index >= MAX_QUESTIONS - 1 )
           => /\ Ran(resp'.trace, "evaluate_answer")
              /\ Ran(resp'.trace, "generate_coaching_report")
              /\ ~Ran(resp'.trace, "generate_question")
              /\ resp'.state.status = "completed"
              /\ db'[i].status = "completed"
              /\ ~cache'[_redis_key(i)].present
        /\ (SubmitStep(i) /\ db[i].present /\ db[i].status = "completed")
           => ~Ran(resp'.trace, "generate_question")

C6_FailedFollowUpCancelled ==
    (resp.op = "submit_answer" /\ RanWith(resp.trace, "generate_follow_up", "failed"))
    => /\ ~resp.state.is_follow_up
       /\ ~resp.awaiting_follow_up
       /\ CacheEntry(resp.sid).present => ~CacheEntry(resp.sid).awaiting_follow_up

(***************************************************************************)
(* C7: Follow-up Decision never changes the status (in particular never   *)
(* sets error) and resolves to no follow-up on any failure; in the same   *)
(* accepted submission the main answer is then recorded as a turn without *)
(* follow-up fields and evaluated.                                         *)
(***************************************************************************)
C7_DecisionFailureIsSafe ==
    /\ \A i \in Ids : \A d \in DecisionOutcomes :
          CacheEntry(i).present =>
              LET before == CacheEntry(i).state
                  after == decide_follow_up(before, d)
              IN  /\ after.status = before.status
                  /\ after.error_message = before.error_message
                  /\ d.kind # "payload" => ~after.is_follow_up
    /\ ( /\ Returned("submit_answer")
         /\ RanWith(resp.trace, "decide_follow_up", "failed") )
       => /\ ~resp.awaiting_follow_up
          /\ ~Ran(resp.trace, "generate_follow_up")
          /\ Len(resp.trace) >= 2
          /\ resp.trace[2].agent = "evaluate_answer"
          /\ resp.trace[2].out # "none"
          /\ resp.state.qa_pairs # <<>>
          /\ Last(resp.state.qa_pairs).answer # <<>>
          /\ Last(resp.state.qa_pairs).follow_up_question = None
          /\ Last(resp.state.qa_pairs).evaluation.kind # "none"

\* the decision call failed and the answer was recorded and evaluated
C7_Witness ==
    /\ Returned("submit_answer")
    /\ RanWith(resp.trace, "decide_follow_up", "failed")
    /\ RanWith(resp.trace, "evaluate_answer", "ok")
    /\ Last(resp.state.qa_pairs).evaluation.kind = "llm"

(***************************************************************************)
(* C8: if the call or the parsing inside Answer Evaluation fails, the     *)
(* most recent turn gets the default evaluation with score 5, the status  *)
(* does not become error because of it, and the pipeline goes on to the   *)
(* next question or to coaching as the index of the turn decides.         *)
(***************************************************************************)
C8_EvaluationFailureDefaults ==
    ( /\ Returned("submit_answer")
      /\ RanWith(resp.trace, "evaluate_answer", "failed") )
    => LET k == CHOOSE n \in DOMAIN resp.trace :
                    resp.trace[n].agent = "evaluate_answer"
           qa == Last(resp.state.qa_pairs)
       IN  /\ qa.evaluation.score = 5
           /\ qa.evaluation.kind = "default"
           /\ Len(resp.trace) > k
           /\ IF qa.question_number - 1 >= MAX_QUESTIONS - 1
              THEN /\ resp.trace[k + 1].agent = "generate_coaching_report"
                   /\ resp.state.status = "completed"
              ELSE /\ resp.trace[k + 1].agent = "advance_question"
                   /\ Len(resp.trace) = k + 2
                   /\ resp.trace[k + 2].agent = "generate_question"
                   /\ resp.state.current_question_index = qa.question_number
                   /\ (resp.state.status = "error") = (resp.trace[k + 2].out # "ok")
                   /\ resp.state.status \in {"interviewing", "error"}

\* a failed evaluation was followed by the next question
C8_Witness ==
    /\ Returned("submit_answer")
    /\ RanWith(resp.trace, "evaluate_answer", "failed")
    /\ RanWith(resp.trace, "generate_question", "ok")
    /\ resp.state.status = "interviewing"
    /\ Last(resp.state.qa_pairs).evaluation.score = 5

(***************************************************************************)
(* C9: whenever Report Synthesis runs (it always has a recorded turn), it *)
(* ends with status completed and a final report, the default one when    *)
(* its call or parsing failed; and no copy of a session is left with     *)
(* status coaching at a request boundary.                                  *)
(***************************************************************************)
C9_ReportAlwaysCompletes ==
    /\ ( /\ Returned("submit_answer")
         /\ Ran(resp.trace, "generate_coaching_report") )
       => /\ resp.state.qa_pairs # <<>>
          /\ resp.state.status = "completed"
          /\ resp.state.final_report.kind # "none"
          /\ RanWith(resp.trace, "generate_coaching_report", "failed")
                => resp.state.final_report.kind = "default"
          /\ RanWith(resp.trace, "generate_coaching_report", "ok")
                => resp.state.final_report.kind = "llm"
    /\ resp.state.status # "coaching"
    /\ \A i \in Ids :
          /\ db[i].status # "coaching"
          /\ CacheEntry(i).state.status # "coaching"

\* report generation failed and the session completed with the default report
C9_Witness ==
    /\ Returned("submit_answer")
    /\ RanWith(resp.trace, "generate_coaching_report", "failed")
    /\ resp.state.status = "completed"
    /\ resp.state.final_report.kind = "default"
    /\ db[resp.sid].coaching_report.kind = "default"

(***************************************************************************)
(* Report Synthesis on its own: generate_coaching_report applied to a      *)
(* state whose turns carry given evaluation scores, with every overall     *)
(* score the coach model may report.                                       *)
(***************************************************************************)
\* Number of evaluated turns fed to the report (the settings allow 8).
MaxProbeTurns == 4

\* Evaluation scores of those turns.
ProbeTurnScores == {6, 7, 8, 9}

\* Overall scores the coach model may report, in tenths (5 and 101 fail
\* the FinalReport validation).
ProbeReportedScores == {5, 101} \cup (10 .. 100)

ProbeScoreLists ==
    UNION { [1 .. n -> ProbeTurnScores] : n \in 1 .. MaxProbeTurns }

\* the state handed to the coach after the last answer was evaluated
\* (a score of 0 stands for a turn without evaluation)
CoachInput(scores) ==
    [InterviewState("en") EXCEPT
        !.candidate_profile = TRUE,
        !.interview_plan = Len(scores),
        !.current_question_index = Len(scores) - 1,
        !.current_question = MainQuestionText(Len(scores) - 1),
        !.qa_pairs = [n \in 1 .. Len(scores) |->
                         [QAPair(n, MainQuestionText(n - 1), <<"a">>, None, NoAnswer)
                             EXCEPT !.evaluation =
                                 IF scores[n] = 0 THEN NoEvaluation
                                 ELSE [score |-> scores[n], kind |-> "llm"]]],
        !.status = "interviewing"]

ProbeReportOutcomes ==
    {[kind |-> "llm_fail", value |-> CHOOSE r \in ReportPayloads : TRUE]}
    \cup { Payload([overall_score |-> r, overall_grade |-> "Good",
                    ready_for_role |-> TRUE]) : r \in ProbeReportedScores }

CoachReport(out) ==
    /\ resp.op = "coach_input"
    /\ resp' = Response("generate_coaching_report", "", 200,
                        generate_coaching_report(resp.state, out), FALSE, <<>>)
    /\ UNCHANGED <<db, cache, created, issued, gateway>>

InitReport ==
    /\ db = [i \in Ids |-> NoRow]
    /\ cache = [k \in CacheKeys |-> NoEntry]
    /\ created = {}
    /\ issued = [i \in Ids |-> [index |-> 0, count |-> 0]]
    /\ gateway = GatewayIdle
    /\ \E scores \in ProbeScoreLists :
          resp = Response("coach_input", "", 0, CoachInput(scores), FALSE, <<>>)

NextReport == \E out \in ProbeReportOutcomes : CoachReport(out)

SpecReport == InitReport /\ [][NextReport]_vars

(***************************************************************************)
(* C10: the overall score of a generated report never differs from the    *)
(* rounded mean of the turn scores by more than 1.0: a reported score     *)
(* further than 1.0 from the mean is replaced by the mean, one within 1.0 *)
(* of it is kept unchanged.                                                *)
(***************************************************************************)
C10_ScoreWithinOneOfMean ==
    [][\A out \in ProbeReportOutcomes :
          ( /\ CoachReport(out)
            /\ out.kind = "payload"
            /\ out.value.overall_score \in 10 .. 100 )
          => LET reported == out.value.overall_score
                 mean == RoundedMean(EvaluatedScores(resp.state.qa_pairs))
                 final == resp'.state.final_report.overall_score
             IN  /\ resp'.state.final_report.kind = "llm"
                 /\ Abs(final - mean) <= 10
                 /\ Abs(reported - mean) > 10 => final = mean
                 /\ Abs(reported - mean) <= 10 => final = reported]_vars

(***************************************************************************)
(* The default report on its own: report generation fails on a state      *)
(* whose turns carry any scores 1..10, or no evaluation.                   *)
(***************************************************************************)
\* Number of turns fed to the failing report generation.
MaxDefaultTurns == 3

\* Turn scores of the QuestionEvaluation range; 0: the turn has no evaluation.
DefaultTurnScores == 0 .. 10

DefaultScoreLists ==
    UNION { [1 .. n -> DefaultTurnScores] : n \in 1 .. MaxDefaultTurns }

\* the outcomes on which generate_coaching_report assigns the default report
DefaultReportOutcomes ==
    { o \in ProbeReportOutcomes :
        ~(o.kind = "payload" /\ ValidReportScore(o.value.overall_score)) }

InitDefaultReport ==
    /\ db = [i \in Ids |-> NoRow]
    /\ cache = [k \in CacheKeys |-> NoEntry]
    /\ created = {}
    /\ issued = [i \in Ids |-> [index |-> 0, count |-> 0]]
    /\ gateway = GatewayIdle
    /\ \E scores \in DefaultScoreLists :
          resp = Response("coach_input", "", 0, CoachInput(scores), FALSE, <<>>)

NextDefaultReport == \E out \in DefaultReportOutcomes : CoachReport(out)

SpecDefaultReport == InitDefaultReport /\ [][NextDefaultReport]_vars

\* the score band of a score given in tenths
ScoreBand(tenths) ==
    CASE tenths >= 90 -> "Excellent"
      [] tenths >= 70 /\ tenths < 90 -> "Very Good"
      [] tenths >= 50 /\ tenths < 70 -> "Good"
      [] tenths >= 30 /\ tenths < 50 -> "Below Average"
      [] OTHER -> "Poor"

\* the scores of the turns that have one
RECURSIVE AvailableScores(_)
AvailableScores(qa_pairs) ==
    IF qa_pairs = <<>> THEN <<>>
    ELSE (IF Head(qa_pairs).evaluation.kind = "none" THEN <<>>
          ELSE <<Head(qa_pairs).evaluation.score>>)
         \o AvailableScores(Tail(qa_pairs))

\* m (tenths) is the mean of the scores rounded to one decimal: no other
\* tenth is nearer to the exact mean
IsRoundedMean(m, scores) ==
    LET d == Len(scores)
        n == 10 * SumScores(scores)
    IN  2 * Abs(d * m - n) <= d

(***************************************************************************)
(* C11: when report generation fails, the default report has overall      *)
(* score the mean of the available turn scores rounded to one decimal     *)
(* (5.0 if no turn has a score), the grade of the score bands and          *)
(* ready_for_role true exactly when that mean is >= 6.0; for turn scores  *)
(* [4,6]: score 5.0, grade Good, not ready.                                *)
(***************************************************************************)
C11_DefaultReport ==
    resp.op = "generate_coaching_report"
    => LET report == resp.state.final_report
           scores == AvailableScores(resp.state.qa_pairs)
       IN  /\ report.kind = "default"
           /\ resp.state.status = "completed"
           /\ IF scores = <<>> THEN report.overall_score = 50
              ELSE IsRoundedMean(report.overall_score, scores)
           /\ report.overall_grade = ScoreBand(report.overall_score)
           /\ report.ready_for_role = (report.overall_score >= 60)
           /\ scores = <<4, 6>>
                => /\ report.overall_score = 50
                   /\ report.overall_grade = "Good"
                   /\ ~report.ready_for_role

\* the default report for turn scores [4,6]
C11_Witness ==
    /\ resp.op = "generate_coaching_report"
    /\ AvailableScores(resp.state.qa_pairs) = <<4, 6>>
    /\ Len(resp.state.qa_pairs) = 2
    /\ resp.state.final_report =
           [overall_score |-> 50, overall_grade |-> "Good",
            ready_for_role |-> FALSE, kind |-> "default"]

\* the default report when no turn has a score
C11_WitnessNoScore ==
    /\ resp.op = "generate_coaching_report"
    /\ AvailableScores(resp.state.qa_pairs) = <<>>
    /\ resp.state.final_report.overall_score = 50

(***************************************************************************)
(* C12: in the final report of every completed session the overall grade  *)
(* is the band of the report's overall score, for generated reports       *)
(* (corrected or not) and for default reports, in the returned state and  *)
(* in the stored report.                                                   *)
(***************************************************************************)
C12_GradeIsBandOfScore ==
    /\ \A i \in Ids :
          (db[i].present /\ db[i].status = "completed")
          => /\ db[i].coaching_report.kind # "none"
             /\ db[i].coaching_report.overall_grade =
                    ScoreBand(db[i].coaching_report.overall_score)
    /\ (ReturnedState /\ resp.state.status = "completed")
       => resp.state.final_report.overall_grade =
              ScoreBand(resp.state.final_report.overall_score)

(***************************************************************************)
(* core/llm.py: one invocation of the gateway, invoke_llm, one step per   *)
(* backend attempt.  Error texts and keywords are character sequences.    *)
(***************************************************************************)
\* Largest retry_count an invocation is given (the default is 2).
MaxRetryCount == 2

RetryCounts == 0 .. MaxRetryCount

\* retry_delay in seconds (the default is 3.0)
RetryDelays == {1, 3}

\* str.lower() on the letters
UpperToLower ==
    ("A" :> "a") @@ ("B" :> "b") @@ ("C" :> "c") @@ ("D" :> "d") @@ ("E" :> "e")
    @@ ("F" :> "f") @@ ("G" :> "g") @@ ("H" :> "h") @@ ("I" :> "i") @@ ("J" :> "j")
    @@ ("K" :> "k") @@ ("L" :> "l") @@ ("M" :> "m") @@ ("N" :> "n") @@ ("O" :> "o")
    @@ ("P" :> "p") @@ ("Q" :> "q") @@ ("R" :> "r") @@ ("S" :> "s") @@ ("T" :> "t")
    @@ ("U" :> "u") @@ ("V" :> "v") @@ ("W" :> "w") @@ ("X" :> "x") @@ ("Y" :> "y")
    @@ ("Z" :> "z")

LowerChar(c) == IF c \in DOMAIN UpperToLower THEN UpperToLower[c] ELSE c

\* str(e).lower()
Lowered(text) == [n \in 1 .. Len(text) |-> LowerChar(text[n])]

\* keyword in error_msg
Contains(text, keyword) ==
    \E n \in 0 .. (Len(text) - Len(keyword)) :
        SubSeq(text, n + 1, n + Len(keyword)) = keyword

RateLimitKeywords ==
    { <<"r", "a", "t", "e", " ", "l", "i", "m", "i", "t">>,
      <<"4", "2", "9">>,
      <<"q", "u", "o", "t", "a">>,
      <<"r", "e", "s", "o", "u", "r", "c", "e", " ", "e", "x", "h", "a", "u", "s", "t", "e", "d">> }

\* mutant: every failure counts as a rate limit
is_rate_limit_always(error_text) == TRUE

is_rate_limit(error_text) ==
    \E keyword \in RateLimitKeywords : Contains(Lowered(error_text), keyword)

\* Texts of the exceptions a backend call may raise.
TextRateLimit == <<"R", "a", "t", "e", " ", "L", "i", "m", "i", "t", " ", "h", "i", "t">>
Text429 == <<"H", "T", "T", "P", " ", "4", "2", "9">>
TextQuota == <<"Q", "u", "o", "t", "a", " ", "u", "s", "e", "d">>
TextExhausted == <<"R", "e", "s", "o", "u", "r", "c", "e", " ", "E", "x", "h", "a", "u", "s", "t", "e", "d">>
TextTimeout == <<"T", "i", "m", "e", "o", "u", "t">>
TextAuth == <<"B", "a", "d", " ", "A", "P", "I", " ", "k", "e", "y">>

ErrorTexts ==
    {TextRateLimit, Text429, TextQuota, TextExhausted, TextTimeout, TextAuth}

\* outcome of one llm.invoke(messages): a response, or an exception
BackendOutcomes ==
    {[ok |-> TRUE, error |-> <<>>]}
    \cup { [ok |-> FALSE, error |-> t] : t \in ErrorTexts }

\* one backend attempt: the backend, the 1-based attempt number, its
\* outcome, and the sleep that followed it
Event(backend, k, out, slept, wait_time) ==
    [backend |-> backend, k |-> k, ok |-> out.ok, error |-> out.error,
     slept |-> slept, wait_time |-> wait_time]

\* mutant: constant backoff
WaitTimeConstant(retry_delay, attempt) == retry_delay

\* wait_time = retry_delay * (attempt + 1)
WaitTime(retry_delay, attempt) == retry_delay * (attempt + 1)

\* the state in which the for loop over range(retry_count + 1) is entered
EnterLoop(retry_count, retry_delay) ==
    [pc |-> IF 0 < retry_count + 1 THEN "primary" ELSE "fallback",
     retry_count |-> retry_count, retry_delay |-> retry_delay,
     attempt |-> 0, log |-> <<>>]

\* one iteration of the primary loop
PrimaryAttempt(out) ==
    /\ gateway.pc = "primary"
    /\ gateway' =
          IF out.ok
          THEN [gateway EXCEPT
                   !.pc = "returned",
                   !.log = Append(@, Event("primary", gateway.attempt + 1, out,
                                           FALSE, 0))]
          ELSE IF is_rate_limit(out.error)
                  /\ gateway.attempt < gateway.retry_count
          THEN [gateway EXCEPT
                   !.pc = IF gateway.attempt + 1 < gateway.retry_count + 1
                          THEN "primary" ELSE "fallback",
                   !.attempt = @ + 1,
                   !.log = Append(@, Event("primary", gateway.attempt + 1, out,
                                           TRUE,
                                           WaitTime(gateway.retry_delay,
                                                    gateway.attempt)))]
          ELSE [gateway EXCEPT
                   !.pc = "fallback",
                   !.log = Append(@, Event("primary", gateway.attempt + 1, out,
                                           FALSE, 0))]
    /\ UNCHANGED <<db, cache, created, resp, issued>>

\* the single attempt on the fallback backend
FallbackAttempt(out) ==
    /\ gateway.pc = "fallback"
    /\ gateway' =
          [gateway EXCEPT
              !.pc = IF out.ok THEN "returned" ELSE "raised",
              !.log = Append(@, Event("fallback", 1, out, FALSE, 0))]
    /\ UNCHANGED <<db, cache, created, resp, issued>>

InitGateway ==
    /\ db = [i \in Ids |-> NoRow]
    /\ cache = [k \in CacheKeys |-> NoEntry]
    /\ created = {}
    /\ issued = [i \in Ids |-> [index |-> 0, count |-> 0]]
    /\ resp = Failure("none", "", 0)
    /\ \E retry_count \in RetryCounts, retry_delay \in RetryDelays :
          gateway = EnterLoop(retry_count, retry_delay)

NextGateway ==
    \/ \E out \in BackendOutcomes : PrimaryAttempt(out)
    \/ \E out \in BackendOutcomes : FallbackAttempt(out)

\* every backend call returns or raises, so the invocation keeps stepping
SpecGateway ==
    InitGateway /\ [][NextGateway]_vars /\ WF_vars(NextGateway)

\* the error texts that carry a rate-limit or quota signature
RateLimitTexts == {TextRateLimit, Text429, TextQuota, TextExhausted}

GatewayDone == gateway.pc \in {"returned", "raised"}

\* what follows the n-th logged attempt: the backend of the next logged
\* attempt, else the position of the invocation
FollowedBy(n) ==
    IF n < Len(gateway.log) THEN gateway.log[n + 1].backend ELSE gateway.pc

(***************************************************************************)
(* C13: a primary failure without rate-limit signature ends the primary   *)
(* loop at once, with no wait and no further primary attempt, and is      *)
(* followed by exactly one fallback attempt; the invocation raises only   *)
(* when that fallback attempt failed and otherwise returns the first      *)
(* successful response.                                                    *)
(***************************************************************************)
C13_NonRateLimitFallsBack ==
    LET log == gateway.log
    IN  /\ \A n \in DOMAIN log :
              ( /\ log[n].backend = "primary"
                /\ ~log[n].ok
                /\ log[n].error \notin RateLimitTexts )
              => /\ ~log[n].slept
                 /\ FollowedBy(n) = "fallback"
                 /\ Len(log) <= n + 1
                 /\ Len(log) = n + 1 => GatewayDone
        /\ Cardinality({n \in DOMAIN log : log[n].backend = "fallback"}) <= 1
        /\ gateway.pc = "raised"
              => /\ log # <<>>
                 /\ Last(log).backend = "fallback"
                 /\ \A n \in DOMAIN log : ~log[n].ok
        /\ gateway.pc = "returned"
              => /\ log # <<>>
                 /\ Last(log).ok
                 /\ \A n \in 1 .. (Len(log) - 1) : ~log[n].ok
        /\ (log # <<>> /\ Last(log).backend = "fallback")
              => gateway.pc = (IF Last(log).ok THEN "returned" ELSE "raised")

\* with retries left, the first primary attempt timed out and the fallback answered
C13_Witness ==
    /\ gateway.retry_count = 2
    /\ gateway.pc = "returned"
    /\ Len(gateway.log) = 2
    /\ gateway.log[1].backend = "primary"
    /\ gateway.log[1].error = TextTimeout
    /\ gateway.log[2].backend = "fallback"

(***************************************************************************)
(* C14: an invocation makes at most retry_count + 1 primary attempts and  *)
(* one fallback attempt and terminates; a rate-limited k-th primary       *)
(* attempt with k <= retry_count is followed by a wait of retry_delay * k *)
(* and another primary attempt, a rate-limited attempt retry_count + 1    *)
(* goes to the fallback without waiting.                                   *)
(***************************************************************************)
C14_Bounded ==
    LET log == gateway.log
        primaries == {n \in DOMAIN log : log[n].backend = "primary"}
    IN  /\ Cardinality(primaries) <= gateway.retry_count + 1
        /\ Cardinality(DOMAIN log \ primaries) <= 1
        /\ \A n \in primaries : log[n].k = n
        /\ \A n \in primaries :
              (~log[n].ok /\ log[n].error \in RateLimitTexts)
              => IF log[n].k <= gateway.retry_count
                 THEN /\ log[n].slept
                      /\ log[n].wait_time = gateway.retry_delay * log[n].k
                      /\ FollowedBy(n) = "primary"
                 ELSE /\ log[n].k = gateway.retry_count + 1
                      /\ ~log[n].slept
                      /\ FollowedBy(n) = "fallback"

C14_BoundedAndTerminates == []C14_Bounded /\ <>GatewayDone

\* three rate-limited primary attempts with waits 3 and 6, then the fallback
C14_Witness ==
    /\ gateway.retry_count = 2
    /\ gateway.retry_delay = 3
    /\ GatewayDone
    /\ Len(gateway.log) = 4
    /\ \A n \in 1 .. 3 : gateway.log[n].error \in RateLimitTexts
    /\ gateway.log[1].wait_time = 3
    /\ gateway.log[2].wait_time = 6
    /\ ~gateway.log[3].slept
    /\ gateway.log[4].backend = "fallback"

(***************************************************************************)
(* C15: after a successful DELETE of a session its cache entry is gone as *)
(* well as its rows: a later status query or answer submission for the id *)
(* reports not found and nothing of the session is served from the cache. *)
(***************************************************************************)
C15_DeleteInvalidatesCache ==
    \A i \in created :
        ~db[i].present
        => /\ ~CacheEntry(i).present
           /\ (resp.sid = i /\ resp.op \in {"get_session_status", "submit_answer"})
                 => resp.code = 404

(***************************************************************************)
(* C16: at every request boundary no cache entry holds a session whose    *)
(* status is completed or error, whether the terminal status was reached  *)
(* during setup or while processing an answer.                             *)
(***************************************************************************)
C16_NoTerminalCacheEntry ==
    \A i \in Ids :
        CacheEntry(i).present
        => CacheEntry(i).state.status \notin {"completed", "error"}

(***************************************************************************)
(* C17: at any request boundary, deleting the cache entry of a session    *)
(* and then requesting its status reconstructs from the durable store a   *)
(* state with the same qa_pairs, candidate_profile and status as the      *)
(* cached state that was deleted.                                          *)
(***************************************************************************)
SameCoreAsStored(i) ==
    LET cached == CacheEntry(i).state
        rebuilt == db_to_interview_state(db[i])
    IN  /\ rebuilt.qa_pairs = cached.qa_pairs
        /\ rebuilt.candidate_profile = cached.candidate_profile
        /\ rebuilt.status = cached.status

C17_ReconstructionMatchesCache ==
    \A i \in Ids :
        CacheEntry(i).present => (db[i].present /\ SameCoreAsStored(i))

\* the same, for the sessions that were not deleted
C17_HoldsWhileStored ==
    \A i \in Ids :
        (CacheEntry(i).present /\ db[i].present) => SameCoreAsStored(i)

(***************************************************************************)
(* C18: after a cache miss on an active session the interview resumes     *)
(* from the durable store with the question last presented: the state     *)
(* served for an active session carries the text of the question at its   *)
(* index (or of its follow-up), and every recorded turn pairs the answer  *)
(* with the question that was asked for its number.                        *)
(***************************************************************************)
C18_ResumeKeepsQuestion ==
    \A i \in Ids :
        /\ ( /\ CacheEntry(i).present
             /\ db[i].present
             /\ CacheEntry(i).state.status = "interviewing" )
           => CacheEntry(i).state.current_question
                 \in {MainQuestionText(CacheEntry(i).state.current_question_index),
                      FollowUpText(CacheEntry(i).state.current_question_index)}
        /\ \A n \in DOMAIN db[i].qa_pairs :
              db[i].qa_pairs[n].question = MainQuestionText(n - 1)

(***************************************************************************)
(* C19: a status query mutates nothing: the cache contents and the        *)
(* durable store are the same after it as before it, also on a cache miss.*)
(***************************************************************************)
C19_StatusQueryIsReadOnly ==
    [][\A i \in Ids : GetSessionStatus(i) => (cache' = cache /\ db' = db)]_vars

(***************************************************************************)
(* C20: the setup pipeline runs Profile Analysis, Topic Planning and      *)
(* Question Generation in that order and stops at the first stage that    *)
(* reports error; its result is a session with status interviewing, a     *)
(* profile, a plan and the first question at index 0, or a session with   *)
(* status error and an error message.                                      *)
(***************************************************************************)
SetupOrder == <<"analyze_resume", "plan_interview", "generate_question">>

C20_SetupStopsAtFirstError ==
    resp.op = "start_interview"
    => LET t == resp.trace
           st == resp.state
       IN  /\ Len(t) \in 1 .. 3
           /\ \A n \in DOMAIN t : t[n].agent = SetupOrder[n]
           /\ \A n \in DOMAIN t : t[n].out # "ok" => n = Len(t)
           /\ IF Len(t) = 3 /\ t[3].out = "ok"
              THEN /\ st.status = "interviewing"
                   /\ st.candidate_profile
                   /\ st.interview_plan > 0
                   /\ st.current_question_index = 0
                   /\ st.current_question = MainQuestionText(0)
                   /\ st.error_message = None
              ELSE /\ st.status = "error"
                   /\ st.error_message # None
                   /\ st.current_question = EmptyText
           /\ db[resp.sid].status = st.status

\* planning failed after a successful analysis: question generation did not run
C20_Witness ==
    /\ resp.op = "start_interview"
    /\ Len(resp.trace) = 2
    /\ resp.trace[1].out = "ok"
    /\ resp.trace[2].out = "failed"
    /\ resp.state.status = "error"
    /\ resp.state.candidate_profile

\* how many times the agent appears in the trace
TimesRan(trace, agent) ==
    Cardinality({k \in DOMAIN trace : trace[k].agent = agent})

\* how many turns of the list carry the question number
TurnsNumbered(qa_pairs, number) ==
    Cardinality({n \in DOMAIN qa_pairs : qa_pairs[n].question_number = number})

(***************************************************************************)
(* C21: an accepted answer that completes a turn at index i below         *)
(* MAX_QUESTIONS - 1 is evaluated, moves current_question_index to        *)
(* exactly i + 1, runs Question Generation exactly once (its question     *)
(* becomes the current question; if its call fails the status is error)   *)
(* and leaves exactly one turn with question number i + 1 in the state    *)
(* and in the durable store.                                               *)
(***************************************************************************)
C21_TurnAdvancesOnce(i) ==
    LET loaded == _load_session(i)
        index == loaded.data.state.current_question_index
        after == resp'.state
    IN  ( /\ SubmitStep(i) /\ resp'.code = 200 /\ ~resp'.awaiting_follow_up
          /\ index < MAX_QUESTIONS - 1 )
        => /\ TimesRan(resp'.trace, "evaluate_answer") = 1
           /\ Last(after.qa_pairs).evaluation.kind # "none"
           /\ Last(after.qa_pairs).question_number = index + 1
           /\ after.current_question_index = index + 1
           /\ TimesRan(resp'.trace, "advance_question") = 1
           /\ TimesRan(resp'.trace, "generate_question") = 1
           /\ ~Ran(resp'.trace, "generate_coaching_report")
           /\ TurnsNumbered(after.qa_pairs, index + 1) = 1
           /\ TurnsNumbered(db'[i].qa_pairs, index + 1) = 1
           /\ IF RanWith(resp'.trace, "generate_question", "ok")
              THEN /\ after.current_question = MainQuestionText(index + 1)
                   /\ after.status = "interviewing"
                   /\ ~after.is_follow_up
                   /\ after.follow_up_count = 0
              ELSE after.status = "error"

C22_PendingOnlyInCache ==
    \A i \in Ids :
        LET entry == CacheEntry(i)
            number == entry.state.current_question_index + 1
        IN  entry.present
            => IF entry.awaiting_follow_up
               THEN /\ entry.pending_main_answer = <<"a", " ", "b">>
                    /\ TurnsNumbered(entry.state.qa_pairs, number) = 0
                    /\ db[i].present => TurnsNumbered(db[i].qa_pairs, number) = 0
               ELSE /\ entry.pending_main_question = EmptyText
                    /\ entry.pending_main_answer = <<>>

C22_FollowUpStep(i) ==
    LET loaded == _load_session(i)
        before == loaded.data.state
        after == resp'.state
        entry == cache'[_redis_key(i)]
    IN  /\ \* the follow-up is issued: the main question and answer become pending
           (SubmitStep(i) /\ resp'.code = 200 /\ resp'.awaiting_follow_up)
           => /\ entry.present /\ entry.awaiting_follow_up
              /\ entry.pending_main_question = before.current_question
              /\ entry.pending_main_answer # <<>>
              /\ after.qa_pairs = before.qa_pairs
              /\ db' = db
        /\ \* the follow-up is answered: one turn from the pending context
           (SubmitStep(i) /\ resp'.code = 200 /\ loaded.data.awaiting_follow_up)
           => /\ ~resp'.awaiting_follow_up
              /\ Len(after.qa_pairs) = Len(before.qa_pairs) + 1
              /\ Last(after.qa_pairs).question = loaded.data.pending_main_question
              /\ Last(after.qa_pairs).answer = loaded.data.pending_main_answer
              /\ Last(after.qa_pairs).follow_up_question = before.current_question
              /\ Last(after.qa_pairs).follow_up_answer = <<"c">>
              /\ db'[i].qa_pairs = after.qa_pairs
              /\ entry.present
                    => /\ ~entry.awaiting_follow_up
                       /\ entry.pending_main_question = EmptyText
                       /\ entry.pending_main_answer = <<>>

BlankSubmitStep(i) ==
    \E ans \in BlankAnswers \cap AnswersFor(i) :
        \E o \in SubmitOutcomes(i, ans) :
            SubmitAnswer(i, ans, o.d, o.f, o.e, o.q, o.r)

C23_BlankStep(i) ==
    LET loaded == _load_session(i)
    IN  (BlankSubmitStep(i) /\ loaded.found)
        => /\ resp'.op = "submit_answer" /\ resp'.code = 400
           /\ resp'.trace = <<>>
           /\ db' = db
           /\ issued' = issued
           /\ (_load_session(i))'.found
           /\ (_load_session(i))'.data = loaded.data
           /\ cache[_redis_key(i)].present => cache' = cache

C23_BlankAnswerRejected == [][\A i \in Ids : C23_BlankStep(i)]_vars

\* a blank answer to an outstanding follow-up was rejected and the pending
\* context is still there
C23_Witness ==
    /\ resp.op = "submit_answer" /\ resp.code = 400
    /\ db[resp.sid].present /\ db[resp.sid].status = "interviewing"
    /\ CacheEntry(resp.sid).present
    /\ CacheEntry(resp.sid).awaiting_follow_up
    /\ CacheEntry(resp.sid).pending_main_question = MainQuestionText(0)
    /\ CacheEntry(resp.sid).state.current_question = FollowUpText(0)

(***************************************************************************)
(* C24: a submission for a session id that is in neither the cache nor    *)
(* the store fails with 404; a submission rejected by a guard (terminal   *)
(* status, empty answer) fails with 400; any other failure raised while   *)
(* processing fails with 500; none of these returns a success response.   *)
(***************************************************************************)
C24_SubmitCodes(i, ans) ==
    LET loaded == _load_session(i)
        unknown == ~cache[_redis_key(i)].present /\ ~db[i].present
        rejected == \/ loaded.data.state.status \in Terminal
                    \/ _sanitize_text(ans) = <<>>
    IN  /\ resp'.op = "submit_answer" /\ resp'.sid = i
        /\ unknown <=> ~loaded.found
        /\ unknown => resp'.code = 404
        /\ (~unknown /\ rejected) => resp'.code = 400
        /\ (~unknown /\ ~rejected) => resp'.code \in {200, 500}
        \* the only failure raised while processing is the store's refusal of
        \* a turn for a deleted session
        /\ resp'.code = 500 => (~db[i].present /\ db' = db)
        /\ (~unknown /\ ~rejected /\ db[i].present) => resp'.code = 200
        /\ resp'.code \in {404, 400, 500}
               => (resp'.state = NoState /\ ~resp'.awaiting_follow_up /\ db' = db)
        /\ resp'.code = 200 => resp'.state # NoState

C24_ErrorCodes == [][\A i \in Ids : \A ans \in AnswersFor(i) : \A o \in SubmitOutcomes(i, ans) : SubmitAnswer(i, ans, o.d, o.f, o.e, o.q, o.r) => C24_SubmitCodes(i, ans)]_vars

\* a submission for a session that was started and then deleted everywhere
C24_Witness ==
    /\ resp.op = "submit_answer" /\ resp.code = 404
    /\ resp.sid \in created
    /\ ~db[resp.sid].present /\ ~CacheEntry(resp.sid).present

\* the three failures are all met
C24_Witness400 == resp.op = "submit_answer" /\ resp.code = 400 /\ db[resp.sid].present
C24_Witness500 == resp.op = "submit_answer" /\ resp.code = 500 /\ resp.trace # <<>>

(***************************************************************************)
(* C25: every setup run and every accepted answer submission ends in a    *)
(* stable state (interviewing with a question to answer, completed, or    *)
(* error) after at most 3 agent invocations of the gateway, each of at    *)
(* most retry_count + 2 backend calls, whatever the backends do.          *)
(***************************************************************************)
GatewayInvocations(trace) ==
    Cardinality({k \in DOMAIN trace : trace[k].out # "none"})

Stable(state) ==
    \/ state.status = "interviewing" /\ state.current_question # EmptyText
    \/ state.status = "completed"
    \/ state.status = "error"

C25_StableAndBounded ==
    (resp.op \in {"start_interview", "submit_answer"})
    => /\ GatewayInvocations(resp.trace) <= 3
       /\ resp.code = 200 => Stable(resp.state)

\* the part that holds: the number of gateway invocations is bounded by 3 in
\* every run, and the state is stable whenever the session held a question
\* when the submission was loaded
C25_InvocationsBounded ==
    (resp.op \in {"start_interview", "submit_answer"})
    => /\ GatewayInvocations(resp.trace) <= 3
       /\ (resp.op = "start_interview" /\ resp.code = 200) => Stable(resp.state)

C25_StableFromQuestion(i) ==
    (SubmitStep(i) /\ _load_session(i).data.state.current_question # EmptyText /\ resp'.code = 200)
    => Stable(resp'.state)

C25_StableWhenQuestionKnown == [][\A i \in Ids : C25_StableFromQuestion(i)]_vars

\* under SpecGateway: one invocation makes at most retry_count + 2 backend calls
C25_CallsPerInvocation == Len(gateway.log) <= gateway.retry_count + 2

(***************************************************************************)
(* Two sessions side by side: the same requests, issued for two session   *)
(* ids, over a store and a cache that hold both.                          *)
(***************************************************************************)
PairIds == {"s1", "s2"}

PairCacheKeys == {_redis_key(i) : i \in PairIds} \cup {EndpointCacheKey(i) : i \in PairIds}

\* gateway outcomes of a submission in the two-session runs: the backends
\* answer, a follow-up is asked for on the first question only, the
\* evaluation payload is valid and the report is the default one
PairSubmitOutcomes(session_id, answer) ==
    LET state == _load_session(session_id).data.state
    IN  {[d |-> IF state.current_question_index = 0 THEN Payload(1) ELSE Payload(0),
          f |-> Payload(1), e |-> Payload(8), q |-> Payload(1),
          r |-> CHOOSE r \in ReportOutcomes : r.kind = "llm_fail"]}

InitPair ==
    /\ db = [i \in PairIds |-> NoRow]
    /\ cache = [k \in PairCacheKeys |-> NoEntry]
    /\ created = {}
    /\ resp = Failure("none", "", 0)
    /\ issued = [i \in PairIds |-> [index |-> 0, count |-> 0]]
    /\ gateway = GatewayIdle

OperationOn(i) ==
    \/ StartInterview(i, "en", Payload(1), Payload(MAX_QUESTIONS + 1), Payload(1))
    \/ \E ans \in AnswersFor(i) \ BlankAnswers : \E o \in PairSubmitOutcomes(i, ans) : SubmitAnswer(i, ans, o.d, o.f, o.e, o.q, o.r)
    \/ GetSessionStatus(i)
    \/ DeleteSession(i)

NextPair ==
    \/ \E i \in PairIds : OperationOn(i)
    \/ \E k \in PairCacheKeys : CacheExpire(k)

SpecPair == InitPair /\ [][NextPair]_vars

\* what the service holds for one session
Held(i) ==
    [row |-> db[i], entry |-> cache[_redis_key(i)],
     endpoint_entry |-> cache[EndpointCacheKey(i)],
     created |-> i \in created, issued |-> issued[i]]

\* the cache and the store as they are when nothing ever happened to session i
CacheWithout(i) == [cache EXCEPT ![_redis_key(i)] = NoEntry, ![EndpointCacheKey(i)] = NoEntry]
StoreWithout(i) == [db EXCEPT ![i] = NoRow]

\* the gateway outcomes tried for a session's next submission
PairProbes == [d : {Payload(0), Payload(1)}, f : {Payload(1)}, e : {Payload(8)}, q : TextOutcomes, r : {CHOOSE r \in ReportOutcomes : r.kind = "llm_fail"}]

\* what a submission for session i returns and leaves behind for i
SubmitResult(c, d, i, ans, o) ==
    LET done == SubmitAnswerFrom(c, d, i, ans, o.d, o.f, o.e, o.q, o.r)
    IN  [row |-> done.row, resp |-> done.resp, follow_up_for |-> done.follow_up_for,
         entry |-> done.cache[_redis_key(i)],
         endpoint_entry |-> done.cache[EndpointCacheKey(i)]]

\* what a status query for session i returns and leaves behind for i
StatusResult(c, d, i) ==
    LET loaded == LoadSessionFrom(c, d, i)
    IN  [found |-> loaded.found, data |-> loaded.data,
         entry |-> loaded.cache[_redis_key(i)]]

(***************************************************************************)
(* C26: sessions are independent: an operation on session A (start,       *)
(* answer, status query, delete), in any interleaving with operations on  *)
(* session B # A, leaves B's cached state, B's durable rows and the       *)
(* results of B's operations what they would be had it not happened.      *)
(***************************************************************************)
\* the results of B's operations are those of a service that never saw A
C26_ResultsOwn ==
    \A A \in PairIds : \A B \in PairIds \ {A} :
        /\ StatusResult(cache, db, B) = StatusResult(CacheWithout(A), StoreWithout(A), B)
        /\ \A ans \in RawAnswers : \A o \in PairProbes :
               SubmitResult(cache, db, B, ans, o)
               = SubmitResult(CacheWithout(A), StoreWithout(A), B, ans, o)

\* an operation on A changes nothing the service holds for B
C26_Frame == \A A \in PairIds : \A B \in PairIds \ {A} : OperationOn(A) => Held(B)' = Held(B)

C26_SessionsIndependent == []C26_ResultsOwn /\ [][C26_Frame]_vars

\* a turn of one session was completed while the other session waits for the
\* answer to a follow-up question
C26_Witness ==
    \E A \in PairIds : \E B \in PairIds \ {A} :
        /\ resp.op = "submit_answer" /\ resp.sid = A /\ resp.code = 200
        /\ Len(db[A].qa_pairs) = 1
        /\ cache[_redis_key(A)].present
        /\ cache[_redis_key(B)].present
        /\ cache[_redis_key(B)].awaiting_follow_up
        /\ db[B].present /\ Len(db[B].qa_pairs) = 0

(***************************************************************************)
(* C27: the inputs fixed at creation (resume text, job description,       *)
(* interview type, difficulty, response language) never change: they are  *)
(* the same after setup, after every process-answer run, in the cached    *)
(* state, in the durable row and after reconstruction, for every allowed  *)
(* value including the language "id".                                     *)
(***************************************************************************)
\* the input fields of InterviewState ("Input (set once at start)")
InputFields == {"resume_text", "job_description", "interview_type", "difficulty", "language"}

Inputs(rec, fields) == [f \in fields |-> rec[f]]

\* every holder of session i's inputs has them equal to `inputs`
InputsHeld(i, inputs, fields) ==
    /\ db[i].present => Inputs(db[i], fields) = inputs
    /\ db[i].present => Inputs(db_to_interview_state(db[i]), fields) = inputs
    /\ CacheEntry(i).present => Inputs(CacheEntry(i).state, fields) = inputs
    /\ (resp.sid = i /\ resp.state # NoState) => Inputs(resp.state, fields) = inputs

\* a start with language l leaves the configured inputs in every holder, and
\* every later step leaves every holder's inputs what the row has
InputsFixedStep(i, fields) ==
    /\ \A l \in Languages : \A a \in AnalyzeOutcomes : \A p \in PlanOutcomes : \A q \in TextOutcomes :
           StartInterview(i, l, a, p, q)
           => InputsHeld(i, Inputs(ConfiguredState(l), fields), fields)'
    /\ (db[i].present /\ db'[i].present)
           => /\ Inputs(db'[i], fields) = Inputs(db[i], fields)
              /\ InputsHeld(i, Inputs(db[i], fields), fields)'

C27_InputsFixed == [][\A i \in Ids : InputsFixedStep(i, InputFields)]_vars

\* what holds: the four inputs the graph state carries are fixed
C27_FixedApartFromLanguage == [][\A i \in Ids : InputsFixedStep(i, InputFields \ {"language"})]_vars

\* and the language is fixed from the stored row on
C27_StoredLanguageKept == [][\A i \in Ids : (db[i].present /\ db'[i].present) => InputsHeld(i, Inputs(db[i], {"language"}), {"language"})']_vars

(***************************************************************************)
(* Interleaved submissions for one session.  A request is suspended at    *)
(* its awaits: after _load_session, after save_qa_pair and between the    *)
(* two commits of _sync_after_processing; the agents run on the request's *)
(* own copy of the state.  `resp` holds the requests in flight.           *)
(***************************************************************************)
MaxRaceTurns == 3

Requests == {1, 2}

RaceId == "s1"

IdleRequest(code) ==
    [pc |-> "idle", data |-> NoEntry, answer |-> <<>>, state |-> NoState, code |-> code]

\* the backends answer: a follow-up is asked for or not, the evaluation is
\* valid, the questions are generated, the report is the default one
RaceDecisions == {Payload(0), Payload(1)}
RaceEvaluation == Payload(8)
RaceQuestion == Payload(1)
RaceReport == CHOOSE r \in ReportOutcomes : r.kind = "llm_fail"

\* the session has been set up and waits for its first answer
InitRace ==
    LET run == run_setup(ConfiguredState("en"), Payload(1), Payload(MAX_QUESTIONS + 1), Payload(1))
    IN  /\ db = [i \in Ids |-> create_session(run.state)]
        /\ cache = _cache_session([k \in CacheKeys |-> NoEntry], RaceId,
                                   SessionData(run.state, FALSE, EmptyText, <<>>))
        /\ created = {RaceId}
        /\ resp = [p \in Requests |-> IdleRequest(0)]
        /\ issued = [i \in Ids |-> [index |-> 0, count |-> 0]]
        /\ gateway = GatewayIdle

\* mutant: a request is admitted only when no other request is in flight
AdmittedSerialized(p) == \A q \in Requests : resp[q].pc = "idle"

\* submit_answer takes no lock: a request is admitted whatever the others do
Admitted(p) == resp[p].pc = "idle"

\* submit_answer up to its first await: _load_session, the guards, the sanitizer
RaceLoad(p, answer) ==
    /\ Admitted(p)
    /\ resp[p].pc = "idle"
    /\ Len(db[RaceId].qa_pairs) + Cardinality({q \in Requests : resp[q].pc = "loaded"}) < MaxRaceTurns
    /\ LET loaded == _load_session(RaceId)
           clean_answer == _sanitize_text(answer)
       IN  IF ~loaded.found
           THEN /\ resp' = [resp EXCEPT ![p] = IdleRequest(404)]
                /\ UNCHANGED cache
           ELSE /\ cache' = loaded.cache
                /\ resp' = [resp EXCEPT ![p] =
                       IF loaded.data.state.status \in Terminal \/ clean_answer = <<>>
                       THEN IdleRequest(400)
                       ELSE [pc |-> "loaded", data |-> loaded.data,
                             answer |-> clean_answer, state |-> NoState, code |-> 0]]
    /\ UNCHANGED <<db, created, issued, gateway>>

\* the handler up to save_qa_pair: the turn is recorded on the request's
\* copy, the process-answer graph runs, the evaluated turn is committed
RaceProcess(p, dOut) ==
    /\ resp[p].pc = "loaded"
    /\ LET data == resp[p].data
           decided == IF data.awaiting_follow_up THEN data.state
                      ELSE decide_follow_up(data.state, dOut)
           qa_pair == IF data.awaiting_follow_up
                      THEN QAPair(decided.current_question_index + 1,
                                  data.pending_main_question, data.pending_main_answer,
                                  decided.current_question, resp[p].answer)
                      ELSE QAPair(decided.current_question_index + 1,
                                  decided.current_question, resp[p].answer, None, NoAnswer)
           appended == [decided EXCEPT !.qa_pairs = Append(@, qa_pair)]
           final == NormalizeStatus(run_process_answer(appended, RaceEvaluation, RaceQuestion, RaceReport).state)
       IN  IF decided.is_follow_up /\ ~data.awaiting_follow_up
           THEN /\ cache' = _cache_session(cache, RaceId,
                                SessionData(generate_follow_up(decided, RaceQuestion), TRUE,
                                            decided.current_question, resp[p].answer))
                /\ resp' = [resp EXCEPT ![p] = IdleRequest(200)]
                /\ issued' = [issued EXCEPT ![RaceId] = Issue(@, decided.current_question_index)]
                /\ UNCHANGED db
           ELSE IF ~db[RaceId].present
           THEN /\ resp' = [resp EXCEPT ![p] = IdleRequest(500)]
                /\ UNCHANGED <<db, cache, issued>>
           ELSE /\ db' = [db EXCEPT ![RaceId] = save_qa_pair(@, Last(final.qa_pairs))]
                /\ resp' = [resp EXCEPT ![p].pc = "saved", ![p].state = final]
                /\ UNCHANGED <<cache, issued>>
    /\ UNCHANGED <<created, gateway>>

\* _sync_after_processing up to its first commit; coaching_reports.session_id
\* is unique: a second report row is refused and the request fails
RaceSync(p) ==
    /\ resp[p].pc = "saved"
    /\ LET state == resp[p].state
       IN  IF state.status = "completed" /\ state.final_report.kind # "none"
           THEN IF db[RaceId].coaching_report.kind # "none"
                THEN /\ resp' = [resp EXCEPT ![p] = IdleRequest(500)]
                     /\ UNCHANGED <<db, cache>>
                ELSE /\ db' = [db EXCEPT ![RaceId] = save_coaching_report(@, state.final_report)]
                     /\ resp' = [resp EXCEPT ![p].pc = "reported"]
                     /\ UNCHANGED cache
           ELSE IF state.status = "error"
           THEN /\ db' = [db EXCEPT ![RaceId] = update_session_status(@, state.status, state.error_message)]
                /\ cache' = _clear_cache(cache, RaceId)
                /\ resp' = [resp EXCEPT ![p] = IdleRequest(200)]
           ELSE /\ cache' = _cache_session(cache, RaceId, SessionData(state, FALSE, EmptyText, <<>>))
                /\ db' = [db EXCEPT ![RaceId] = update_session_status(@, state.status, None)]
                /\ resp' = [resp EXCEPT ![p] = IdleRequest(200)]
    /\ UNCHANGED <<created, issued, gateway>>

\* the second commit of the completed branch, and the cache entry cleared
RaceFinalScore(p) ==
    /\ resp[p].pc = "reported"
    /\ db' = [db EXCEPT ![RaceId] = update_session_final_score(@, resp[p].state.final_report)]
    /\ cache' = _clear_cache(cache, RaceId)
    /\ resp' = [resp EXCEPT ![p] = IdleRequest(200)]
    /\ UNCHANGED <<created, issued, gateway>>

NextRace ==
    \/ \E p \in Requests : \E ans \in AnswersFor(RaceId) \ BlankAnswers : RaceLoad(p, ans)
    \/ \E p \in Requests : \E d \in RaceDecisions : RaceProcess(p, d)
    \/ \E p \in Requests : RaceSync(p)
    \/ \E p \in Requests : RaceFinalScore(p)

SpecRace == InitRace /\ [][NextRace]_vars

\* the stored turns of the session with question number n
RowsNumbered(n) == {k \in DOMAIN db[RaceId].qa_pairs : db[RaceId].qa_pairs[k].question_number = n}

\* request p got past the guards and has committed its turn
Saved(p) == resp[p].pc \in {"saved", "reported"}

(***************************************************************************)
(* C28: submissions for one session id are not serialized: two            *)
(* submissions that interleave at their awaits can both load the same     *)
(* session state and both be accepted, so a state is reachable in which   *)
(* two turn rows with the same question number are stored (or a turn is   *)
(* added after the session has completed).                                *)
(***************************************************************************)
C28_NotSerialized ==
    \A p \in Requests : \A q \in Requests \ {p} :
        \* a request in flight does not keep another one out
        /\ (/\ resp[p].pc = "idle" /\ resp[q].pc = "loaded"
            /\ Len(db[RaceId].qa_pairs) + Cardinality({r \in Requests : resp[r].pc = "loaded"}) < MaxRaceTurns)
           => \A ans \in AnswersFor(RaceId) \ BlankAnswers : ENABLED RaceLoad(p, ans)
        \* two requests that loaded the same question both store a turn for it
        /\ (/\ Saved(p) /\ Saved(q)
            /\ resp[p].data.state.current_question_index = resp[q].data.state.current_question_index)
           => Cardinality(RowsNumbered(resp[p].data.state.current_question_index + 1)) >= 2

\* both requests loaded the first question, both were accepted, and two turn
\* rows numbered 1 are stored
C28_Witness ==
    /\ \A p \in Requests : Saved(p) /\ resp[p].data.state.current_question_index = 0
    /\ resp[1].data = resp[2].data
    /\ Cardinality(RowsNumbered(1)) = 2

\* a turn was added after the session had completed
C28_WitnessAfterCompletion ==
    /\ db[RaceId].status = "completed"
    /\ db[RaceId].coaching_report.kind # "none"
    /\ Len(db[RaceId].qa_pairs) > MAX_QUESTIONS
    /\ \A p \in Requests : resp[p].pc = "idle"

(***************************************************************************)
(* C29: for every session Report Synthesis produces a final report at     *)
(* most once and the store holds at most one report row in every          *)
(* reachable state; a second report for the same session is never         *)
(* synthesized or stored.                                                  *)
(***************************************************************************)
\* request p holds a report that Report Synthesis produced for it
Synthesized(p) ==
    resp[p].pc \in {"saved", "reported"} /\ resp[p].state.final_report.kind # "none"

\* under SpecRace: no two requests hold a synthesized report, and none holds
\* one it has not stored while the store already has a report
C29_ReportOnce ==
    /\ Cardinality({p \in Requests : Synthesized(p)}) <= 1
    /\ \A p \in Requests :
           (Synthesized(p) /\ resp[p].pc = "saved") => db[RaceId].coaching_report.kind = "none"

\* what holds under SpecRace: the stored report, once written, is never
\* replaced (a second row is refused by the unique key)
C29_StoredOnce == [][db[RaceId].coaching_report.kind # "none" => db'[RaceId].coaching_report = db[RaceId].coaching_report]_vars

\* what holds under Spec, one request at a time: Report Synthesis runs only
\* for a session without a stored report, and a stored report is never replaced
C29_SequentialStep(i) ==
    /\ (SubmitStep(i) /\ Ran(resp'.trace, "generate_coaching_report"))
           => db[i].coaching_report.kind = "none"
    /\ (db[i].coaching_report.kind # "none" /\ db'[i].present)
           => db'[i].coaching_report = db[i].coaching_report

C29_SequentialOnce == [][\A i \in Ids : C29_SequentialStep(i)]_vars

(***************************************************************************)
(* C30: the final report and the session's terminal status, score and     *)
(* grade are persisted together: in every observable state of the store a *)
(* report row exists for a session if and only if the session's row has   *)
(* status completed with overall score and grade equal to the report's.   *)
(***************************************************************************)
ReportStored(row) == row.coaching_report.kind # "none"

CompletedWith(row, report) ==
    /\ row.status = "completed"
    /\ row.overall_score = report.overall_score
    /\ row.overall_grade = report.overall_grade

C30_ReportWithTerminalRow ==
    \A i \in Ids :
        db[i].present =>
            /\ ReportStored(db[i]) => CompletedWith(db[i], db[i].coaching_report)
            /\ db[i].status = "completed" => ReportStored(db[i])

(***************************************************************************)
(* C31: current_question_index never decreases over the life of a         *)
(* session: no operation (answer submission, follow-up issue, status      *)
(* query, cache-miss reconstruction) lowers it, and one accepted          *)
(* submission raises it by at most 1.                                      *)
(***************************************************************************)
\* the index the service loads for session i
LoadedIndex(i) == _load_session(i).data.state.current_question_index

C31_IndexStep(i) ==
    /\ (_load_session(i).found /\ (_load_session(i))'.found)
           => /\ LoadedIndex(i)' >= LoadedIndex(i)
              /\ LoadedIndex(i)' <= LoadedIndex(i) + 1
    /\ (_load_session(i).found /\ resp'.sid = i /\ resp'.state # NoState)
           => /\ resp'.state.current_question_index >= LoadedIndex(i)
              /\ resp'.state.current_question_index <= LoadedIndex(i) + 1
    /\ (SubmitStep(i) /\ resp'.code = 200 /\ resp'.awaiting_follow_up)
           => resp'.state.current_question_index = LoadedIndex(i)

MaxSegments == 5

Segment == { <<"p">>, <<"fence">>, <<"fence", "json">>, <<"{">>, <<"}">>, <<"{", "m", "}">>, <<"{", "M", "}">>, <<"7">> }

RECURSIVE Flatten(_)
Flatten(segments) ==
    IF segments = <<>> THEN <<>> ELSE Head(segments) \o Flatten(Tail(segments))

ResponseTexts ==
    { Flatten(segs) : segs \in UNION { [1 .. n -> Segment] : n \in 0 .. MaxSegments } }

\* mutant: the typographic quotes are left as they are
normalize_unicode_none(text) == text

\* normalize_unicode: the typographic quotes become ASCII quotes
normalize_unicode(text) == [n \in DOMAIN text |-> IF text[n] = "M" THEN "m" ELSE text[n]]

ParseFailure == [ok |-> FALSE, kind |-> "none", members |-> {}]

Parsed(kind, members) == [ok |-> TRUE, kind |-> kind, members |-> members]

\* json.loads: any JSON value is accepted, an object or not
json_loads(text) ==
    IF text = <<"7">> THEN Parsed("number", {})
    ELSE IF text = <<"{", "}">> THEN Parsed("object", {})
    ELSE IF text = <<"{", "m", "}">> THEN Parsed("object", {"a"})
    ELSE ParseFailure

Positions(text, chunk) == {n \in DOMAIN text : text[n] = chunk}

First(S) == CHOOSE x \in S : \A y \in S : x <= y

Final(S) == CHOOSE x \in S : \A y \in S : x >= y

\* re.search for fence, optional json tag, lazy group, fence: group 1 of
\* the first match
FencedBlock(text) ==
    LET fences == Positions(text, "fence")
        open == First(fences)
        close == First(fences \ {open})
        start == IF open + 1 <= Len(text) /\ text[open + 1] = "json" THEN open + 2 ELSE open + 1
    IN  IF Cardinality(fences) < 2
        THEN [found |-> FALSE, group |-> <<>>]
        ELSE [found |-> TRUE, group |-> SubSeq(text, start, close - 1)]

\* re.search(r"\{.*\}", DOTALL): from the first "{" to the last "}"
BraceBlock(text) ==
    LET opens == Positions(text, "{")
        closes == Positions(text, "}")
    IN  IF opens = {} \/ closes = {} \/ Final(closes) < First(opens)
        THEN [found |-> FALSE, group |-> <<>>]
        ELSE [found |-> TRUE, group |-> SubSeq(text, First(opens), Final(closes))]

extract_json(raw) ==
    LET text == normalize_unicode(raw)
        direct == json_loads(text)
        fenced == FencedBlock(text)
        braced == BraceBlock(text)
    IN  IF direct.ok THEN direct
        ELSE IF fenced.found /\ json_loads(fenced.group).ok THEN json_loads(fenced.group)
        ELSE IF braced.found /\ json_loads(braced.group).ok THEN json_loads(braced.group)
        ELSE ParseFailure

InitParser ==
    /\ db = [i \in Ids |-> NoRow]
    /\ cache = [k \in CacheKeys |-> NoEntry]
    /\ created = {}
    /\ issued = [i \in Ids |-> [index |-> 0, count |-> 0]]
    /\ gateway = GatewayIdle
    /\ \E text \in ResponseTexts :
          resp = [op |-> "response", text |-> text, result |-> ParseFailure]

ExtractJson ==
    /\ resp.op = "response"
    /\ resp' = [op |-> "extract_json", text |-> resp.text, result |-> extract_json(resp.text)]
    /\ UNCHANGED <<db, cache, created, issued, gateway>>

NextParser == ExtractJson

SpecParser == InitParser /\ [][NextParser]_vars

(***************************************************************************)
(* C32: the response parser tries, in this order and returning the first  *)
(* success, the whole normalized text, the contents of the first fenced   *)
(* code block, the substring from the first "{" to the last "}"; a fenced *)
(* JSON object surrounded by prose parses to the equivalent record; an    *)
(* input with no braces anywhere raises the parse failure.                *)
(***************************************************************************)
\* the texts "prose, fence, optional tag, object, fence, prose"
FencedObjectInProse(members) ==
    { <<"p">> \o open \o <<"{">> \o members \o <<"}", "fence", "p">> : open \in {<<"fence">>, <<"fence", "json">>} }

C32_FirstSuccessWins ==
    LET text == normalize_unicode(resp.text)
        whole == json_loads(text)
        fenced == IF FencedBlock(text).found THEN json_loads(FencedBlock(text).group) ELSE ParseFailure
        braced == IF BraceBlock(text).found THEN json_loads(BraceBlock(text).group) ELSE ParseFailure
    IN  resp.op = "extract_json"
        => /\ whole.ok => resp.result = whole
           /\ (~whole.ok /\ fenced.ok) => resp.result = fenced
           /\ (~whole.ok /\ ~fenced.ok /\ braced.ok) => resp.result = braced
           /\ (~whole.ok /\ ~fenced.ok /\ ~braced.ok) => resp.result = ParseFailure

C32_FencedObjectParses ==
    resp.op = "extract_json"
    => /\ resp.text \in FencedObjectInProse(<<>>) => resp.result = Parsed("object", {})
       /\ resp.text \in FencedObjectInProse(<<"m">>) => resp.result = Parsed("object", {"a"})
       /\ resp.text \in FencedObjectInProse(<<"M">>) => resp.result = Parsed("object", {"a"})

NoBraces(text) == Positions(text, "{") = {} /\ Positions(text, "}") = {}

C32_NoBracesFails ==
    (resp.op = "extract_json" /\ NoBraces(resp.text)) => resp.result = ParseFailure

C32_ParserContract == C32_FirstSuccessWins /\ C32_FencedObjectParses /\ C32_NoBracesFails

\* what holds: the order, the fenced object, and that a text without braces
\* never yields an object
C32_OrderAndFencedObject == C32_FirstSuccessWins /\ C32_FencedObjectParses

C32_NoBracesNoObject ==
    (resp.op = "extract_json" /\ NoBraces(resp.text)) => resp.result.kind # "object"

(***************************************************************************)
(* C33: question generation failing while the interview advances.          *)
(***************************************************************************)
\* POST /answer, the response's current_question: null once the state is
\* completed or in error
current_q(state) ==
    IF state.status \in Terminal THEN None ELSE state.current_question

\* the submission advanced and the question generator did not produce the
\* next question
AdvanceFailed(trace) ==
    /\ Ran(trace, "advance_question")
    /\ Ran(trace, "generate_question")
    /\ ~RanWith(trace, "generate_question", "ok")

C33_AdvanceFailureStep(i) ==
    LET loaded == _load_session(i)
        before == db[i].qa_pairs
        after == resp'.state
    IN  (SubmitStep(i) /\ resp'.code = 200 /\ AdvanceFailed(resp'.trace))
        => /\ after.status = "error"
           /\ after.error_message # None
           /\ ~resp'.awaiting_follow_up
           /\ current_q(after) = None
           /\ ~Ran(resp'.trace, "generate_coaching_report")
           /\ Len(db'[i].qa_pairs) = Len(before) + 1
           /\ SubSeq(db'[i].qa_pairs, 1, Len(before)) = before
           /\ Last(db'[i].qa_pairs) = Last(after.qa_pairs)
           /\ Last(db'[i].qa_pairs).evaluation.kind # "none"
           /\ db'[i].status = "error"
           /\ db'[i].error_message = after.error_message
           /\ db'[i].error_message # None
           /\ cache'[_redis_key(i)] = NoEntry

\* C33: when question generation fails while the interview advances to the
\* next question, the submission stops in status error: the turn just
\* evaluated is stored with its evaluation, the session row gets status error
\* with the error message, the cache entry is deleted, and the response
\* carries the error state and no current question.
C33_AdvanceFailureStops == [][\A i \in Ids : C33_AdvanceFailureStep(i)]_vars

\* a submission whose advance failed has just been answered
C33_Witness ==
    /\ resp.op = "submit_answer" /\ resp.code = 200
    /\ AdvanceFailed(resp.trace)
    /\ resp.state.status = "error"
    /\ db[resp.sid].status = "error"
    /\ Len(db[resp.sid].qa_pairs) = 1
    /\ cache[_redis_key(resp.sid)] = NoEntry

(***************************************************************************)
(* Progress of one session whose cache entry stays available: the session  *)
(* is started once, its submissions are processed one at a time, nothing   *)
(* expires or deletes the entry.  The response record also counts the      *)
(* submissions answered 200 so far (`accepted`).                           *)
(***************************************************************************)
ProgressId == "s1"

\* MAX_QUESTIONS * (1 + MAX_FOLLOW_UPS)
SubmissionBound == MAX_QUESTIONS * (1 + MAX_FOLLOW_UPS)

Counted(r, n) ==
    [op |-> r.op, sid |-> r.sid, code |-> r.code, state |-> r.state,
     awaiting_follow_up |-> r.awaiting_follow_up, trace |-> r.trace,
     accepted |-> n]

InitProgress ==
    /\ db = [i \in Ids |-> NoRow]
    /\ cache = [k \in CacheKeys |-> NoEntry]
    /\ created = {}
    /\ resp = Counted(Failure("none", "", 0), 0)
    /\ issued = [i \in Ids |-> [index |-> 0, count |-> 0]]
    /\ gateway = GatewayIdle

\* POST /start
ProgressStart(language, aOut, pOut, qOut) ==
    /\ ProgressId \notin created
    /\ LET run == run_setup(ConfiguredState(language), aOut, pOut, qOut)
       IN  /\ db' = [db EXCEPT ![ProgressId] = create_session(run.state)]
           /\ cache' = _cache_session(cache, ProgressId,
                            SessionData(run.state, FALSE, EmptyText, <<>>))
           /\ resp' = Counted(Response("start_interview", ProgressId, 200,
                                       run.state, FALSE, run.trace), 0)
    /\ created' = created \cup {ProgressId}
    /\ UNCHANGED <<issued, gateway>>

\* POST /answer
ProgressSubmit(answer, o) ==
    /\ ProgressId \in created
    /\ resp.accepted <= SubmissionBound
    /\ \E done \in {submit_answer(ProgressId, answer, o.d, o.f, o.e, o.q, o.r)} :
           /\ db' = [db EXCEPT ![ProgressId] = done.row]
           /\ cache' = done.cache
           /\ resp' = Counted(done.resp,
                              IF done.resp.code = 200
                              THEN resp.accepted + 1 ELSE resp.accepted)
           /\ issued' = IF done.follow_up_for >= 0
                        THEN [issued EXCEPT ![ProgressId] =
                                 Issue(@, done.follow_up_for)]
                        ELSE issued
    /\ UNCHANGED <<created, gateway>>

\* GET /session/{id}
ProgressStatus ==
    /\ ProgressId \in created
    /\ LET loaded == _load_session(ProgressId)
       IN  /\ cache' = loaded.cache
           /\ resp' = Counted(IF loaded.found
                              THEN Response("get_session_status", ProgressId,
                                            200, loaded.data.state,
                                            loaded.data.awaiting_follow_up, <<>>)
                              ELSE Failure("get_session_status", ProgressId, 404),
                              resp.accepted)
    /\ UNCHANGED <<db, created, issued, gateway>>

NextProgress ==
    \/ \E l \in Languages, a \in AnalyzeOutcomes, p \in PlanOutcomes,
          q \in TextOutcomes : ProgressStart(l, a, p, q)
    \/ \E ans \in AnswersFor(ProgressId) :
          \E o \in SubmitOutcomes(ProgressId, ans) : ProgressSubmit(ans, o)
    \/ ProgressStatus

SpecProgress == InitProgress /\ [][NextProgress]_vars

\* the step is a submission answered 200 in which no agent reported error
AcceptedWithoutError ==
    /\ resp'.accepted = resp.accepted + 1
    /\ resp'.state.status # "error"

\* the submission asked the candidate for a follow-up answer: nothing is
\* stored yet and the session waits for that answer
IssuesFollowUp ==
    /\ resp'.awaiting_follow_up
    /\ Ran(resp'.trace, "generate_follow_up")
    /\ cache'[_redis_key(ProgressId)].present
    /\ cache'[_redis_key(ProgressId)].awaiting_follow_up
    /\ db'[ProgressId].qa_pairs = db[ProgressId].qa_pairs
    /\ resp'.state.current_question_index
           = _load_session(ProgressId).data.state.current_question_index

\* the submission completed the turn of the current question: the turn is
\* stored and evaluated, and the interview moved on or ended
CompletesTurn ==
    LET index == _load_session(ProgressId).data.state.current_question_index
    IN  /\ ~resp'.awaiting_follow_up
        /\ Len(db'[ProgressId].qa_pairs) = Len(db[ProgressId].qa_pairs) + 1
        /\ Last(db'[ProgressId].qa_pairs).question_number = index + 1
        /\ Ran(resp'.trace, "evaluate_answer")
        /\ IF index < MAX_QUESTIONS - 1
           THEN /\ resp'.state.status = "interviewing"
                /\ resp'.state.current_question_index = index + 1
           ELSE resp'.state.status = "completed"

C34_ProgressStep == AcceptedWithoutError => (IssuesFollowUp \/ CompletesTurn)

\* a follow-up answer always completes the turn: no question gets a second
\* follow-up
C34_FollowUpAnswerStep ==
    LET entry == cache[_redis_key(ProgressId)]
    IN  (AcceptedWithoutError /\ entry.present /\ entry.awaiting_follow_up)
        => CompletesTurn

\* a session that is neither completed nor in error accepts every answer
\* that is not blank
C34_NeverStalls ==
    (ProgressId \in created /\ db[ProgressId].status \notin Terminal)
    => \A ans \in AnswersFor(ProgressId) \ BlankAnswers :
          \A o \in SubmitOutcomes(ProgressId, ans) :
              submit_answer(ProgressId, ans, o.d, o.f, o.e, o.q, o.r).resp.code = 200

C34_Bounded ==
    /\ resp.accepted <= SubmissionBound
    /\ resp.accepted <= Len(db[ProgressId].qa_pairs) * (1 + MAX_FOLLOW_UPS) + 1
    /\ resp.accepted = SubmissionBound => db[ProgressId].status \in Terminal
    /\ Len(db[ProgressId].qa_pairs) = MAX_QUESTIONS
           => db[ProgressId].status \in Terminal

\* C34: with the submissions of a session processed one at a time, its cache
\* entry kept available and no agent reporting error, every accepted
\* submission either issues a follow-up or completes a turn, a session that
\* is not over accepts the next answer, and the session is completed after at
\* most MAX_QUESTIONS * (1 + MAX_FOLLOW_UPS) accepted submissions.
C34_CompletesWithinBound == [](C34_NeverStalls /\ C34_Bounded) /\ [][C34_ProgressStep /\ C34_FollowUpAnswerStep]_vars

\* every question got a follow-up and the interview completed with exactly
\* the bound of accepted submissions
C34_Witness ==
    /\ resp.op = "submit_answer" /\ resp.code = 200
    /\ resp.accepted = SubmissionBound
    /\ resp.state.status = "completed"
    /\ db[ProgressId].status = "completed"
    /\ Len(db[ProgressId].qa_pairs) = MAX_QUESTIONS

(***************************************************************************)
(* Topic planning and question generation on their own: plan_interview     *)
(* and generate_question applied to states with every plan length and      *)
(* every question index.  `resp` holds the state and the agent applied.    *)
(***************************************************************************)
MaxTopics == 4

\* the plan lengths the planner's model may answer with
PlanProbeOutcomes == {LlmFail, ParseFail} \cup {Payload(n) : n \in 0 .. MaxTopics}

\* states before planning (no plan, -1) and states holding a stored plan
PlanInputs ==
    { [InterviewState(l) EXCEPT !.candidate_profile = TRUE,
                                !.interview_plan = n,
                                !.current_question_index = k,
                                !.is_follow_up = f,
                                !.follow_up_count = IF f THEN 1 ELSE 0,
                                !.status = IF n = -1 THEN "analyzing"
                                           ELSE "interviewing"] :
        l \in Languages, n \in -1 .. MAX_QUESTIONS,
        k \in 0 .. MAX_QUESTIONS - 1, f \in BOOLEAN }

InitPlan ==
    /\ db = [i \in Ids |-> NoRow]
    /\ cache = [k \in CacheKeys |-> NoEntry]
    /\ created = {}
    /\ issued = [i \in Ids |-> [index |-> 0, count |-> 0]]
    /\ gateway = GatewayIdle
    /\ \E state \in PlanInputs :
          resp = Response("plan_input", "", 0, state, FALSE, <<>>)

\* plan_interview_node
PlanInterview(out) ==
    /\ resp.op = "plan_input"
    /\ resp.state.interview_plan = -1
    /\ resp' = Response("plan_interview", "", 0, plan_interview(resp.state, out),
                        FALSE, <<Step("plan_interview", TRUE, Accepted(out))>>)
    /\ UNCHANGED <<db, cache, created, issued, gateway>>

\* generate_question_node / advance_and_generate_node after the advance
GenerateQuestion(out) ==
    /\ resp.op \in {"plan_input", "plan_interview"}
    /\ resp.state.status # "error"
    /\ resp' = Response("generate_question", "", 0,
                        generate_question(resp.state, out), FALSE,
                        <<Step("generate_question",
                               QuestionNeedsCall(resp.state), Accepted(out))>>)
    /\ UNCHANGED <<db, cache, created, issued, gateway>>

\* advance_and_generate_node: the next question of an interview under way
AdvanceAndGenerate(out) ==
    /\ resp.op \in {"generate_question", "advance_and_generate"}
    /\ resp.state.status # "error"
    /\ resp.state.current_question_index < MAX_QUESTIONS - 1
    /\ resp' = Response("advance_and_generate", "", 0,
                        advance_and_generate_node(resp.state, out), FALSE,
                        <<Step("generate_question",
                               QuestionNeedsCall(advance_question(resp.state)),
                               Accepted(out))>>)
    /\ UNCHANGED <<db, cache, created, issued, gateway>>

NextPlan ==
    \/ \E out \in PlanProbeOutcomes : PlanInterview(out)
    \/ \E out \in TextOutcomes : GenerateQuestion(out)
    \/ \E out \in TextOutcomes : AdvanceAndGenerate(out)

SpecPlan == InitPlan /\ [][NextPlan]_vars

\* the stored plan has min(generated, MAX_QUESTIONS) topics
C35_PlanTruncated(out) ==
    (PlanInterview(out) /\ out.kind = "payload")
    => /\ resp'.state.interview_plan <= MAX_QUESTIONS
       /\ resp'.state.interview_plan <= out.value
       /\ out.value <= MAX_QUESTIONS => resp'.state.interview_plan = out.value
       /\ out.value > MAX_QUESTIONS => resp'.state.interview_plan = MAX_QUESTIONS

\* with topics in the plan the topic index lies within it and the question
\* is asked for; with an empty or missing plan the agent sets status error
C35_TopicWithinPlan(out) ==
    LET topics == resp.state.interview_plan
        state == IF resp'.op = "advance_and_generate"
                 THEN advance_question(resp.state) ELSE resp.state
    IN  (GenerateQuestion(out) \/ AdvanceAndGenerate(out))
        => IF topics > 0
           THEN /\ TopicIndex(state) \in 0 .. topics - 1
                /\ TopicIndex(state) <= state.current_question_index
                /\ TopicIndex(state) = state.current_question_index
                       \/ TopicIndex(state) = topics - 1
                /\ resp'.trace[1].out # "none"
           ELSE /\ resp'.state.status = "error"
                /\ resp'.state.error_message = "No interview plan available"
                /\ resp'.trace[1].out = "none"
                /\ resp'.state.current_question = resp.state.current_question

C35_PlanStep == (\A out \in PlanProbeOutcomes : C35_PlanTruncated(out)) /\ (\A out \in TextOutcomes : C35_TopicWithinPlan(out))

C35_StoredPlanBounded == resp.state.interview_plan <= MAX_QUESTIONS

C35_WitnessShortPlan ==
    /\ resp.op = "advance_and_generate"
    /\ resp.state.interview_plan = 1
    /\ resp.state.current_question_index = MAX_QUESTIONS - 1
    /\ resp.trace[1].out = "ok"

\* no plan: question generation reports the error
C35_WitnessNoPlan ==
    /\ resp.op = "generate_question"
    /\ resp.state.interview_plan <= 0
    /\ resp.state.status = "error"

(***************************************************************************)
(* C36: the follow-up flag and counter of a session.                       *)
(***************************************************************************)
\* the session states a request can see or leave behind: the cached state,
\* the state _load_session serves, and the state of the last response
SessionViews(i) ==
    LET entry == cache[_redis_key(i)]
        loaded == _load_session(i)
    IN  (IF entry.present
         THEN {[state |-> entry.state, awaiting |-> entry.awaiting_follow_up]}
         ELSE {})
        \cup (IF loaded.found
              THEN {[state |-> loaded.data.state,
                     awaiting |-> loaded.data.awaiting_follow_up]}
              ELSE {})
        \cup (IF resp.sid = i /\ resp.code = 200
                 /\ resp.op \in {"start_interview", "submit_answer",
                                 "get_session_status"}
              THEN {[state |-> resp.state, awaiting |-> resp.awaiting_follow_up]}
              ELSE {})

\* the session waits for the answer to a main question
AwaitsMainAnswer(view) == view.state.status = "interviewing" /\ ~view.awaiting

C36_CleanWhenAwaitingMain(i) ==
    \A view \in SessionViews(i) :
        AwaitsMainAnswer(view)
        => /\ ~view.state.is_follow_up
           /\ view.state.follow_up_count = 0

\* a positive counter: a follow-up was issued for the current question and
\* its turn is not stored yet, or the state is the one returned by the
\* submission that completed that turn as the last one of the interview
C36_CounterOnlyDuringFollowUp(i) ==
    \A view \in SessionViews(i) :
        view.state.follow_up_count > 0
        => /\ view.state.follow_up_count <= MAX_FOLLOW_UPS
           /\ view.state.is_follow_up
           /\ issued[i].index = view.state.current_question_index
           /\ issued[i].count >= 1
           /\ \/ /\ view.awaiting
                 /\ view.state.status = "interviewing"
                 /\ Len(view.state.qa_pairs) = view.state.current_question_index
                 /\ view.state.current_question
                        = FollowUpText(view.state.current_question_index)
              \/ /\ view.state.status = "completed"
                 /\ resp.op = "submit_answer" /\ view.state = resp.state
                 /\ Last(view.state.qa_pairs).follow_up_question
                        = FollowUpText(view.state.current_question_index)
                 /\ Last(view.state.qa_pairs).question_number
                        = view.state.current_question_index + 1

\* C36: whenever the session waits for the answer to a main question (after
\* setup and after each advance) the follow-up flag is false and the counter
\* is 0; the counter is greater than 0 only from the issue of a follow-up to
\* the completion of that question's turn.
C36_FollowUpCounterScoped == \A i \in Ids : C36_CleanWhenAwaitingMain(i) /\ C36_CounterOnlyDuringFollowUp(i)

\* the second question is awaited after a turn that had a follow-up
C36_Witness ==
    /\ resp.op = "submit_answer" /\ resp.code = 200
    /\ resp.state.status = "interviewing" /\ ~resp.awaiting_follow_up
    /\ resp.state.current_question_index = 1
    /\ Last(resp.state.qa_pairs).follow_up_question = FollowUpText(0)
    /\ resp.state.follow_up_count = 0 /\ ~resp.state.is_follow_up
    /\ cache[_redis_key(resp.sid)].present

\* a follow-up is awaited and the counter is 1
C36_WitnessAwaiting ==
    /\ resp.op = "submit_answer" /\ resp.code = 200
    /\ resp.awaiting_follow_up
    /\ resp.state.follow_up_count = 1

(***************************************************************************)
(* Answer evaluation on its own: evaluate_answer applied to states with    *)
(* up to MaxEvaluatedTurns turns, the last one just recorded.              *)
(***************************************************************************)
MaxEvaluatedTurns == 2

\* outcomes of the evaluator's call: failures and scores, 0 and 11 invalid
EvaluateProbeOutcomes == {LlmFail, ParseFail} \cup {Payload(n) : n \in {0, 1, 8, 10, 11}}

\* evaluations the earlier turns may carry
EarlierEvaluations == {DefaultEvaluation, [score |-> 8, kind |-> "llm"]}

\* the turn just recorded: a main answer alone or with its follow-up
RecordedTurn(number, followed) ==
    IF followed
    THEN QAPair(number, MainQuestionText(number - 1), <<"a">>,
                FollowUpText(number - 1), <<"c">>)
    ELSE QAPair(number, MainQuestionText(number - 1), <<"a">>, None, NoAnswer)

\* turn lists: earlier turns evaluated, the last one not yet
TurnLists(n) ==
    { [k \in 1 .. n |->
          IF k < n
          THEN [RecordedTurn(k, followed[k]) EXCEPT !.evaluation = evs[k]]
          ELSE RecordedTurn(k, followed[k])] :
        followed \in [1 .. n -> BOOLEAN], evs \in [1 .. n -> EarlierEvaluations] }

EvaluateTurnLists == UNION { TurnLists(n) : n \in 0 .. MaxEvaluatedTurns }

EvaluateInputs ==
    { [InterviewState(l) EXCEPT
          !.candidate_profile = TRUE,
          !.interview_plan = MAX_QUESTIONS,
          !.current_question_index = IF turns = <<>> THEN 0 ELSE Len(turns) - 1,
          !.current_question = IF followed THEN FollowUpText(0)
                               ELSE MainQuestionText(0),
          !.is_follow_up = followed,
          !.follow_up_count = IF followed THEN 1 ELSE 0,
          !.qa_pairs = turns,
          !.status = "interviewing"] :
        l \in Languages, followed \in BOOLEAN, turns \in EvaluateTurnLists }

InitEvaluate ==
    /\ db = [i \in Ids |-> NoRow]
    /\ cache = [k \in CacheKeys |-> NoEntry]
    /\ created = {}
    /\ issued = [i \in Ids |-> [index |-> 0, count |-> 0]]
    /\ gateway = GatewayIdle
    /\ \E state \in EvaluateInputs :
          resp = Response("evaluate_input", "", 0, state, FALSE, <<>>)

EvaluateAnswer(out) ==
    /\ resp.op = "evaluate_input"
    /\ resp' = Response("evaluate_answer", "", 0,
                        evaluate_answer(resp.state, out), FALSE,
                        <<Step("evaluate_answer", resp.state.qa_pairs # <<>>,
                               Accepted(out) /\ ValidScore(out.value))>>)
    /\ UNCHANGED <<db, cache, created, issued, gateway>>

NextEvaluate == \E out \in EvaluateProbeOutcomes : EvaluateAnswer(out)

SpecEvaluate == InitEvaluate /\ [][NextEvaluate]_vars

\* the fields evaluate_answer may write
EvaluationOwned == {"status", "qa_pairs", "error_message"}

C37_EvaluationFrame ==
    LET before == resp.state
        after == resp'.state
        n == Len(before.qa_pairs)
    IN  (resp.op = "evaluate_input" /\ resp'.op = "evaluate_answer")
        => /\ \A f \in DOMAIN before \ EvaluationOwned : after[f] = before[f]
           /\ Len(after.qa_pairs) = n
           /\ \A k \in 1 .. n - 1 : after.qa_pairs[k] = before.qa_pairs[k]
           /\ n > 0 => /\ [after.qa_pairs[n] EXCEPT !.evaluation = NoEvaluation]
                              = before.qa_pairs[n]
                       /\ after.qa_pairs[n].evaluation.kind # "none"
                       /\ ValidScore(after.qa_pairs[n].evaluation.score)
                       /\ after.status = "evaluating"
                       /\ after.error_message = before.error_message
           /\ n = 0 => after.status = "error"

\* C37: answer evaluation changes only the status and the evaluation of the
\* most recent turn; the earlier turns, current_question_index, the current
\* question, the follow-up flag and counter, the profile and the plan are the
\* same after it as before, whether the evaluation succeeded or failed.
C37_EvaluationOwnsLastTurn == [][C37_EvaluationFrame]_vars

\* the second turn, with a follow-up, was scored by the model
C37_Witness ==
    /\ resp.op = "evaluate_answer"
    /\ resp.trace[1].out = "ok"
    /\ Len(resp.state.qa_pairs) = 2
    /\ resp.state.qa_pairs[2].evaluation = [score |-> 8, kind |-> "llm"]
    /\ resp.state.qa_pairs[1].evaluation = DefaultEvaluation
    /\ resp.state.is_follow_up /\ resp.state.follow_up_count = 1

\* the evaluation failed and the default evaluation was assigned
C37_WitnessFailure ==
    /\ resp.op = "evaluate_answer"
    /\ resp.trace[1].out = "failed"
    /\ Len(resp.state.qa_pairs) = 2
    /\ resp.state.qa_pairs[2].evaluation = DefaultEvaluation
    /\ resp.state.status = "evaluating"

(***************************************************************************)
(* C38: the numbering of the recorded turns.                               *)
(***************************************************************************)
C38_TurnsNumbered(i) ==
    /\ NumberedInOrder(db[i].qa_pairs)
    /\ \A view \in SessionViews(i) :
          /\ NumberedInOrder(view.state.qa_pairs)
          /\ AwaitsMainAnswer(view)
                => Len(view.state.qa_pairs) = view.state.current_question_index
          /\ (view.state.status = "interviewing" /\ view.awaiting)
                => Len(view.state.qa_pairs) = view.state.current_question_index
          /\ view.state.status = "completed"
                => Len(view.state.qa_pairs) = view.state.current_question_index + 1

\* the cached turns are the stored ones while the row exists
C38_CacheAgreesWithStore(i) ==
    (cache[_redis_key(i)].present /\ db[i].present)
    => cache[_redis_key(i)].state.qa_pairs = db[i].qa_pairs

C38_WitnessCompleted ==
    \E i \in Ids :
        /\ db[i].status = "completed"
        /\ Len(db[i].qa_pairs) = MAX_QUESTIONS
        /\ Last(db[i].qa_pairs).question_number = MAX_QUESTIONS

(***************************************************************************)
(* C39: the statuses visible at a request boundary.                        *)
(***************************************************************************)
TransientStatuses == {"initialized", "analyzing", "planning", "evaluating", "coaching"}

BoundaryStatuses == {"interviewing", "completed", "error"}

\* C39: the transient statuses are never visible at a request boundary: every
\* status written to the store or to the cache, and every status returned by
\* start_interview or submit_answer, is interviewing, completed or error.
C39_NoTransientStatus ==
    \A i \in Ids :
        /\ db[i].present => db[i].status \in BoundaryStatuses
        /\ cache[_redis_key(i)].present
              => cache[_redis_key(i)].state.status \in BoundaryStatuses
        /\ \A view \in SessionViews(i) :
              /\ view.state.status \in BoundaryStatuses
              /\ view.state.status \notin TransientStatuses

\* a submission ran the evaluator (status evaluating inside the pipeline) and
\* returned, stored and cached the status interviewing
C39_Witness ==
    /\ resp.op = "submit_answer" /\ resp.code = 200
    /\ Ran(resp.trace, "evaluate_answer")
    /\ Ran(resp.trace, "generate_question")
    /\ resp.state.status = "interviewing"
    /\ db[resp.sid].status = "interviewing"
    /\ cache[_redis_key(resp.sid)].present
    /\ cache[_redis_key(resp.sid)].state.status = "interviewing"

\* the setup failed in planning and start_interview returned status error
C39_WitnessSetupError ==
    /\ resp.op = "start_interview"
    /\ RanWith(resp.trace, "plan_interview", "failed")
    /\ resp.state.status = "error"
    /\ db[resp.sid].status = "error"

(***************************************************************************)
(* C40: every stored turn is scored.                                       *)
(***************************************************************************)
Scored(qa_pair) ==
    /\ qa_pair.evaluation.kind # "none"
    /\ ValidScore(qa_pair.evaluation.score)

C40_StoredTurnsScored(i) ==
    /\ \A k \in DOMAIN db[i].qa_pairs : Scored(db[i].qa_pairs[k])
    /\ \A view \in SessionViews(i) :
          view.state.status = "completed"
          => /\ Len(view.state.qa_pairs) = MAX_QUESTIONS
             /\ \A k \in DOMAIN view.state.qa_pairs : Scored(view.state.qa_pairs[k])
             /\ Len(EvaluatedScores(view.state.qa_pairs)) = MAX_QUESTIONS
    /\ db[i].status = "completed"
          => /\ Len(db[i].qa_pairs) = MAX_QUESTIONS
             /\ Len(EvaluatedScores(db[i].qa_pairs)) = MAX_QUESTIONS

\* the coach's mean is taken over the scores of all MAX_QUESTIONS turns: a
\* default report carries exactly that mean, a generated one lies within one
\* point of it or was replaced by it
C40_ReportStep(i) ==
    LET scores == EvaluatedScores(resp'.state.qa_pairs)
        report == resp'.state.final_report
    IN  (SubmitStep(i) /\ resp'.code = 200
         /\ Ran(resp'.trace, "generate_coaching_report"))
        => /\ Len(scores) = MAX_QUESTIONS
           /\ scores = [k \in 1 .. MAX_QUESTIONS |-> db'[i].qa_pairs[k].evaluation.score]
           /\ report.kind = "default" => report.overall_score = RoundedMean(scores)
           /\ report.kind = "llm"
                 => \/ ~DeviatesTooFar(report.overall_score, RoundedMean(scores))
                    \/ report.overall_score = RoundedMean(scores)

\* C40: every turn persisted to the store carries an evaluation with a score
\* between 1 and 10, so in every completed session all MAX_QUESTIONS turns
\* are scored and the mean used for the report is taken over all of them.
C40_AllTurnsScored == [](\A i \in Ids : C40_StoredTurnsScored(i)) /\ [][\A i \in Ids : C40_ReportStep(i)]_vars

\* a completed session whose last evaluation failed: the default score is
\* stored and counted in the default report's mean
C40_Witness ==
    /\ resp.op = "submit_answer" /\ resp.code = 200
    /\ resp.state.status = "completed"
    /\ RanWith(resp.trace, "evaluate_answer", "failed")
    /\ Last(db[resp.sid].qa_pairs).evaluation = DefaultEvaluation
    /\ db[resp.sid].qa_pairs[1].evaluation.kind = "llm"
    /\ Len(db[resp.sid].qa_pairs) = MAX_QUESTIONS
    /\ resp.state.final_report.kind = "default"
    /\ resp.state.final_report.overall_score
           = RoundedMean(EvaluatedScores(db[resp.sid].qa_pairs))

====
